---- MODULE Spec2Model ----
(***************************************************************************)
(* Attendance verification protocol of the Smart-attendance application:   *)
(* the QR check-in of ScannerModal.handleScanSuccess, the manual mark of   *)
(* LiveAttendance.handleManualMark, the signup run of                      *)
(* SignUpPage.handleFinalSubmit, the login of LoginPage.handleSubmit and   *)
(* the App auth-state listener, over the document store (users, courses,   *)
(* attendance), the authentication provider and the object storage.        *)
(*                                                                         *)
(* Distances are in centimetres, times in milliseconds.  Every await of    *)
(* the handlers is a separate step, so that the handlers interleave the    *)
(* way the browser's event loop lets them.                                 *)
(***************************************************************************)
EXTENDS Integers, Sequences, FiniteSets, TLC

VARIABLES
    now,          \* Date.now(), ms
    day,          \* index of the current UTC calendar day (new Date().toISOString())
    attendance,   \* collection 'attendance': document id -> document
    courses,      \* collection 'courses': document id -> [facultyId, studentIds]
    attempts,     \* one ScannerModal per attempt id: the run of handleScanSuccess
    authUsers,    \* authentication provider: the identities, [uid, email]
    authCurrent,  \* authentication provider: the signed-in uid, or None
    users,        \* collection 'users': uid -> profile document
    faces,        \* object storage: uids with a stored user_faces/{uid}.jpg
    signup,       \* SignUpPage state and the run of handleFinalSubmit
    login,        \* LoginPage state and the run of handleSubmit
    listener,     \* App: the auth-state callback in progress
    currentUser,  \* App: currentUser state (a uid or None)
    view,         \* App: view state, 'login' or 'signup'
    history,      \* history: how the signup run of each uid ended
    qr,           \* GenerateQrCode: component state, intervalRef, session history
    timers,       \* the browser's active setInterval timers
    generations,  \* the runs of generateNewQrData awaiting getCurrentPosition()
    report,       \* AttendanceReports: selectedCourseId, reportData, loading
    reportRuns,   \* the runs of generateReport, with what each one has read
    scanners,     \* the Html5Qrcode instances that hold or are acquiring the camera
    registry,     \* localStorage of the face service: the registrations, the last verifyFace result
    subscriptions \* the active onSnapshot listeners, and the effects that opened them

vars == <<now, day, attendance, courses, attempts,
          authUsers, authCurrent, users, faces, signup, login, listener,
          currentUser, view, history, qr, timers, generations,
          report, reportRuns, scanners, registry, subscriptions>>

serviceVars == <<registry, subscriptions>>
verifyVars == <<now, day, attendance, courses, attempts, scanners, serviceVars>>
accountVars == <<authUsers, authCurrent, users, faces, signup, login, listener,
                 currentUser, view, history>>
reportVars == <<report, reportRuns>>
facultyVars == <<qr, timers, generations, report, reportRuns>>
dashboardVars == <<facultyVars, scanners, serviceVars>>

-----------------------------------------------------------------------------
(* Domains of the inputs *)

None == "none"

\* Upper bound on the calendar days the clock passes through.
MaxDay == 2

\* A number below 100 in two decimal digits.
TwoDigits(n) ==
    LET digit == <<"0", "1", "2", "3", "4", "5", "6", "7", "8", "9">> IN
    digit[(n \div 10) + 1] \o digit[(n % 10) + 1]

\* The ISO date (UTC) of each day index: new Date().toISOString().split('T')[0].
DateString(d) ==
    IF d <= 27 THEN "2026-11-" \o TwoDigits(d + 3) ELSE "2026-12-" \o TwoDigits(d - 27)

\* Instants at which the clock is observed.
TimePoints == {0, 30000, 30001}

AttemptIds == {"a1", "a2"}
Students == {"s1", "s2"}
FacultyIds == {"f1", "f2"}
\* The faculty users who create courses.
CourseOwners == {"f1"}
\* Document ids Firestore generates for addDoc(collection(db, 'courses')).
CourseDocIds == {"c1"}
\* courseId values a decoded QR payload may carry.
TokenCourseIds == {"c1"}
TokenTimestamps == {0, 1}
\* Positions along a meridian, as centimetres from a reference point.
TokenLocations == {100}
StudentPositions == {2100, 2101}
\* The attempts that run under Spec (one scanner at a time).
SeqAttempts == {"a1"}

\* QrCodeData as the generator stringifies it (src/types.ts:40-49); json tells
\* whether the text is JSON at all.
QrCodeData == [json : {TRUE}, courseId : TokenCourseIds, facultyId : FacultyIds,
               timestamp : TokenTimestamps, location : TokenLocations]

\* Decoded text that is not JSON.
NotJson == [json |-> FALSE, courseId |-> None, facultyId |-> None,
            timestamp |-> 0, location |-> 0]

\* What the scanner may decode: the JSON text of a QrCodeData, or text that is
\* not JSON.
DecodedTexts == QrCodeData \cup {NotJson}

-----------------------------------------------------------------------------
(* Code Verifier: ScannerModal.handleScanSuccess *)

FRESHNESS_WINDOW_MS == 30000
GEOFENCE_RADIUS_M == 20
GeofenceRadiusCm == GEOFENCE_RADIUS_M * 100

\* JSON.parse(decodedText) throws on text that is not JSON.
ParseThrows(text) == ~text.json

\* Variant: the window taken as exclusive (>= in place of >).
IsExpiredInclusive(nowMs, timestamp) == nowMs - timestamp >= FRESHNESS_WINDOW_MS

\* Date.now() - parsedQrData.timestamp > 30000
IsExpired(nowMs, timestamp) == nowMs - timestamp > FRESHNESS_WINDOW_MS

\* calculateDistance of services/locationService: the great-circle distance,
\* which along a meridian is the absolute difference of the offsets.
calculateDistance(p, q) == IF p >= q THEN p - q ELSE q - p

\* Variant: the radius taken as exclusive (>= in place of >).
OutOfRangeInclusive(distance) == distance >= GeofenceRadiusCm

\* distance > 20
OutOfRange(distance) == distance > GeofenceRadiusCm

\* Variant: the date left out of the document id.
AttendanceIdWithoutDate(studentId, courseId, date) ==
    studentId \o "_" \o courseId

\* `${currentUser!.id}_${parsedQrData.courseId}_${today}`
AttendanceId(studentId, courseId, date) ==
    studentId \o "_" \o courseId \o "_" \o date

\* Variant: studentId taken from the token instead of the scanning user.
ScanAttendanceDocStudentFromToken(user, token, date) ==
    [studentId |-> token.facultyId, courseId |-> token.courseId, date |-> date,
     status |-> "present", markedBy |-> token.facultyId]

\* Variant: markedBy taken from the scanning user instead of the token.
ScanAttendanceDocMarkedByStudent(user, token, date) ==
    [studentId |-> user, courseId |-> token.courseId, date |-> date,
     status |-> "present", markedBy |-> user]

\* The document handleScanSuccess passes to setDoc.
ScanAttendanceDoc(user, token, date) ==
    [studentId |-> user, courseId |-> token.courseId, date |-> date,
     status |-> "present", markedBy |-> token.facultyId]

\* The document handleManualMark passes to setDoc.
ManualAttendanceDoc(studentId, courseId, date, faculty) ==
    [studentId |-> studentId, courseId |-> courseId, date |-> date,
     status |-> "present", markedBy |-> faculty]

\* setDoc(ref, data): create or overwrite the document with that id.
SetDoc(store, id, data) ==
    [k \in DOMAIN store \cup {id} |-> IF k = id THEN data ELSE store[k]]

InSeq(x, s) == \E i \in 1..Len(s) : s[i] = x

\* Variant: a plain push in place of arrayUnion.
ArrayPush(s, x) == Append(s, x)

\* arrayUnion(x) on an array field: append x unless it is an element already.
ArrayUnion(s, x) == IF InSeq(x, s) THEN s ELSE Append(s, x)

NoResult == [success |-> FALSE, message |-> None]
ExpiredResult == [success |-> FALSE, message |-> "Expired QR Code. Please scan the new one."]
OutOfRangeResult == [success |-> FALSE, message |-> "Must be within 20m to mark attendance."]
FailedResult == [success |-> FALSE, message |-> "Verification failed"]
SuccessResult == [success |-> TRUE, message |-> "Attendance marked successfully!"]

ClosedAttempt ==
    [pc |-> "closed", user |-> None, text |-> NotJson, position |-> -1,
     distance |-> -1, date |-> None, result |-> NoResult,
     \* history: the steps started, the store writes of this run that took
     \* effect, the calls of setResult, and whether another commit has
     \* replaced the attendance document since this run wrote it
     trace |-> <<>>, writes |-> 0, results |-> 0, overwritten |-> FALSE]

\* The steps of one attempt, in the order of the handler's code.
StepOrder == <<"freshness", "location", "geofence", "upsert", "enroll">>

\* setResult(res); setStep('result'); and the handler returns.
Finish(a, res) ==
    attempts' = [attempts EXCEPT ![a].pc = "done", ![a].result = res,
                                 ![a].results = @ + 1]

\* History: the attempts other than a whose attendance document id has just
\* been written again by someone else.
NoteOverwrite(atts, id, a) ==
    [b \in DOMAIN atts |->
        IF /\ b # a
           /\ atts[b].writes >= 1
           /\ id = AttendanceId(atts[b].user, atts[b].text.courseId, atts[b].date)
          THEN [atts[b] EXCEPT !.overwritten = TRUE]
          ELSE atts[b]]

\* ScanAttendance: "Scan QR Code" mounts a ScannerModal for the signed-in student.
OpenScanner(a, u) ==
    /\ attempts[a].pc = "closed"
    /\ attempts' = [attempts EXCEPT ![a] = [ClosedAttempt EXCEPT !.pc = "scanning", !.user = u]]
    /\ UNCHANGED <<now, day, attendance, courses, accountVars, dashboardVars>>

\* The scanner decodes a frame and calls handleScanSuccess(decodedText), which
\* first awaits html5QrCodeRef.current.stop().
ScanDecoded(a, text) ==
    /\ attempts[a].pc = "scanning"
    /\ attempts' = [attempts EXCEPT ![a].pc = "stopping", ![a].text = text]
    /\ UNCHANGED <<now, day, attendance, courses, accountVars, dashboardVars>>

\* Variant: the expired branch without its return, so the handler goes on to
\* getCurrentPosition() after reporting the expired code.
StopSettledNoReturn(a) ==
    /\ attempts[a].pc = "stopping"
    /\ LET text == attempts[a].text IN
         IF ParseThrows(text)
           THEN Finish(a, FailedResult)
           ELSE IF IsExpired(now, text.timestamp)
             THEN attempts' = [attempts EXCEPT ![a].pc = "locating",
                                 ![a].result = ExpiredResult,
                                 ![a].results = @ + 1,
                                 ![a].trace = <<"freshness", "location">>]
             ELSE attempts' = [attempts EXCEPT ![a].pc = "locating",
                                 ![a].trace = <<"freshness", "location">>]
    /\ UNCHANGED <<now, day, attendance, courses, accountVars, dashboardVars>>

\* stop() has settled (a rejection is caught and logged): JSON.parse, the
\* freshness check and the start of getCurrentPosition().
StopSettled(a) ==
    /\ attempts[a].pc = "stopping"
    /\ LET text == attempts[a].text IN
         IF ParseThrows(text)
           THEN Finish(a, FailedResult)
           ELSE IF IsExpired(now, text.timestamp)
             THEN attempts' = [attempts EXCEPT ![a].pc = "done",
                                 ![a].result = ExpiredResult,
                                 ![a].results = @ + 1,
                                 ![a].trace = <<"freshness">>]
             ELSE attempts' = [attempts EXCEPT ![a].pc = "locating",
                                 ![a].trace = <<"freshness", "location">>]
    /\ UNCHANGED <<now, day, attendance, courses, accountVars, dashboardVars>>

\* getCurrentPosition() has settled: on a position, calculateDistance, the
\* geofence check and the start of setDoc on the attendance document.
PositionSettled(a, ok, position) ==
    /\ attempts[a].pc = "locating"
    /\ IF ~ok
         THEN Finish(a, FailedResult)
         ELSE LET distance == calculateDistance(position, attempts[a].text.location) IN
              IF OutOfRange(distance)
                THEN attempts' = [attempts EXCEPT ![a].pc = "done",
                                    ![a].result = OutOfRangeResult,
                                    ![a].results = @ + 1,
                                    ![a].position = position,
                                    ![a].distance = distance,
                                    ![a].trace = Append(@, "geofence")]
                ELSE attempts' = [attempts EXCEPT ![a].pc = "writing",
                                    ![a].position = position,
                                    ![a].distance = distance,
                                    ![a].date = DateString(day),
                                    ![a].trace = @ \o <<"geofence", "upsert">>]
    /\ UNCHANGED <<now, day, attendance, courses, accountVars, dashboardVars>>

\* setDoc(attendanceRef, ...) has settled: written, and updateDoc on the course
\* starts; or rejected, which the catch block reports.
SetDocSettled(a, ok) ==
    /\ attempts[a].pc = "writing"
    /\ LET at == attempts[a]
           id == AttendanceId(at.user, at.text.courseId, at.date) IN
         IF ok
           THEN /\ attendance' = SetDoc(attendance, id, ScanAttendanceDoc(at.user, at.text, at.date))
                /\ attempts' = NoteOverwrite(
                                 [attempts EXCEPT ![a].pc = "enrolling",
                                    ![a].writes = 1,
                                    ![a].trace = Append(@, "enroll")], id, a)
           ELSE /\ Finish(a, FailedResult)
                /\ UNCHANGED attendance
    /\ UNCHANGED <<now, day, courses, accountVars, dashboardVars>>

\* updateDoc(courseRef, {studentIds: arrayUnion(uid)}) has settled: applied when
\* the course document exists and the write goes through, rejected otherwise.
UpdateDocSettled(a, ok) ==
    /\ attempts[a].pc = "enrolling"
    /\ LET at == attempts[a]
           c == at.text.courseId IN
         IF ok /\ c \in DOMAIN courses
           THEN /\ courses' = [courses EXCEPT ![c].studentIds = ArrayUnion(@, at.user)]
                /\ attempts' = [attempts EXCEPT ![a].pc = "done", ![a].writes = 2,
                                   ![a].result = SuccessResult,
                                   ![a].results = @ + 1]
           ELSE /\ Finish(a, FailedResult)
                /\ UNCHANGED courses
    /\ UNCHANGED <<now, day, attendance, accountVars, dashboardVars>>

\* The Close button unmounts the modal.
CloseModal(a) ==
    /\ attempts[a].pc \in {"scanning", "done"}
    /\ attempts' = [attempts EXCEPT ![a] = ClosedAttempt]
    /\ UNCHANGED <<now, day, attendance, courses, accountVars, dashboardVars>>

-----------------------------------------------------------------------------
(* Faculty side: course creation and manual mark *)

\* ManageCourses.handleSubmit: addDoc(collection(db, 'courses'), {..., studentIds: []}).
CreateCourse(c, f) ==
    /\ c \notin DOMAIN courses
    /\ courses' = SetDoc(courses, c, [facultyId |-> f, studentIds |-> <<>>])
    /\ UNCHANGED <<now, day, attendance, attempts, accountVars, dashboardVars>>

\* LiveAttendance.handleManualMark(studentId), for the session's course and the
\* date of the component's last render; a rejected setDoc is caught and logged.
handleManualMark(c, studentId, d, ok) ==
    /\ c \in DOMAIN courses
    /\ InSeq(studentId, courses[c].studentIds)
    /\ d \in 1..day
    /\ LET date == DateString(d)
           id == AttendanceId(studentId, c, date) IN
         IF ok
           THEN /\ attendance' = SetDoc(attendance, id,
                                   ManualAttendanceDoc(studentId, c, date, courses[c].facultyId))
                /\ attempts' = NoteOverwrite(attempts, id, None)
           ELSE UNCHANGED <<attendance, attempts>>
    /\ UNCHANGED <<now, day, courses, accountVars, dashboardVars>>

\* deleteDoc(ref): the store without that document.
DeleteDoc(store, id) == [k \in DOMAIN store \ {id} |-> store[k]]

\* Variant: the deletion also takes the student out of every course.
handleDeleteUnenrolls(studentId, ok) ==
    /\ currentUser \in DOMAIN users
    /\ users[currentUser].role = "faculty"
    /\ studentId \in DOMAIN users
    /\ users[studentId].role = "student"
    /\ IF ok
         THEN /\ users' = DeleteDoc(users, studentId)
              /\ courses' = [c \in DOMAIN courses |->
                               [courses[c] EXCEPT !.studentIds =
                                   SelectSeq(@, LAMBDA x : x # studentId)]]
         ELSE UNCHANGED <<users, courses>>
    /\ UNCHANGED <<now, day, attendance, attempts, authUsers, authCurrent, faces,
                   signup, login, listener, currentUser, view, history, dashboardVars>>

\* ManageStudents.handleDelete(studentId), confirmed by the faculty user:
\* deleteDoc on users/{studentId}; a rejection is caught and alerted.  The
\* identity stays in the authentication provider, the courses are not touched.
handleDelete(studentId, ok) ==
    /\ currentUser \in DOMAIN users
    /\ users[currentUser].role = "faculty"
    /\ studentId \in DOMAIN users
    /\ users[studentId].role = "student"
    /\ users' = IF ok THEN DeleteDoc(users, studentId) ELSE users
    /\ UNCHANGED <<verifyVars, dashboardVars, authUsers, authCurrent, faces, signup, login, listener,
                   currentUser, view, history>>

-----------------------------------------------------------------------------
(* The clock *)

Tick(t) ==
    /\ t > now
    /\ now' = t
    /\ UNCHANGED <<day, attendance, courses, attempts, accountVars, dashboardVars>>

NextDay ==
    /\ day < MaxDay
    /\ day' = day + 1
    /\ UNCHANGED <<now, attendance, courses, attempts, accountVars, dashboardVars>>

-----------------------------------------------------------------------------
(* Accounts: SignUpPage, LoginPage and the App auth-state listener *)

\* uids the authentication provider hands out, and the e-mail addresses typed.
Uids == {"u1", "u2"}
Emails == {"e1", "e2"}
Roles == {"student", "faculty"}

AuthUids == {i.uid : i \in authUsers}
EmailTaken(email) == \E i \in authUsers : i.email = email
UidOf(email) == (CHOOSE i \in authUsers : i.email = email).uid

\* SignUpPage as mounted: step 'details', submissionStage 'idle', no image.
MountedSignUp ==
    [step |-> "details", stage |-> "idle", role |-> "student", email |-> None,
     imgSrc |-> FALSE, error |-> None, pc |-> "none", uid |-> None]

\* LoginPage as mounted: loginStage 'idle'.
MountedLogin ==
    [stage |-> "idle", error |-> None, pc |-> "none", email |-> None, uid |-> None]

\* The message the catch block of handleFinalSubmit shows for err.code.
SignUpErrorMessage(code) ==
    CASE code = "auth/email-already-in-use" -> "An account with this email already exists."
      [] code = "auth/weak-password" -> "Password should be at least 6 characters."
      [] OTHER -> "Failed to create account. Please try again."

\* Variant: the catch block without setSubmissionStage('idle').
SignUpCatchKeepsStage(su, code) ==
    [su EXCEPT !.error = SignUpErrorMessage(code), !.step = "details",
               !.pc = "none", !.uid = None]

\* The catch block of handleFinalSubmit: setError, setSubmissionStage('idle'),
\* setStep('details').  Nothing is deleted.
SignUpCatch(su, code) ==
    [su EXCEPT !.error = SignUpErrorMessage(code), !.stage = "idle",
               !.step = "details", !.pc = "none", !.uid = None]

\* The auth-state callback of App starts for a signed-in user: it calls getDoc
\* on users/{uid}.
ListenerFired(runs, uid) == runs \cup {[uid |-> uid, pc |-> "getDoc"]}

\* LoginPage: "Sign Up" (with no login run in flight).
NavigateToSignUp ==
    /\ view = "login"
    /\ currentUser = None
    /\ login.pc = "none"
    /\ signup.pc = "none"
    /\ view' = "signup"
    /\ signup' = MountedSignUp
    /\ login' = MountedLogin
    /\ UNCHANGED <<verifyVars, dashboardVars, authUsers, authCurrent, users, faces, listener,
                   currentUser, history>>

\* SignUpPage: "Login", offered unless step is 'submitting' or 'success'.
NavigateToLogin ==
    /\ view = "signup"
    /\ currentUser = None
    /\ signup.step \in {"details", "faceCapture"}
    /\ view' = "login"
    /\ signup' = MountedSignUp
    /\ login' = MountedLogin
    /\ UNCHANGED <<verifyVars, dashboardVars, authUsers, authCurrent, users, faces, listener,
                   currentUser, history>>

\* The profile document handleFinalSubmit writes to users/{uid}.
UserData(su) ==
    [email |-> su.email, role |-> su.role,
     faceImageUrl |-> su.role = "student" /\ su.imgSrc]

\* Variant: handleFinalSubmit without setSubmissionStage('creating_auth').
StartFinalSubmitNoStage(su) ==
    [su EXCEPT !.error = None, !.step = "submitting", !.pc = "createUser"]

\* The first statements of handleFinalSubmit, up to the await of
\* createUserWithEmailAndPassword.
StartFinalSubmit(su) ==
    [su EXCEPT !.error = None, !.step = "submitting", !.stage = "creating_auth",
               !.pc = "createUser"]

\* Variant: the details step saves a draft profile under the e-mail before
\* any identity exists.
handleDetailsSubmitSavesDraft(role, email, valid) ==
    /\ view = "signup"
    /\ currentUser = None
    /\ signup.step = "details"
    /\ signup.pc = "none"
    /\ LET su == [signup EXCEPT !.role = role, !.email = email, !.error = None] IN
         IF ~valid
           THEN /\ signup' = [su EXCEPT !.error = "Name, email, and password cannot be empty."]
                /\ UNCHANGED users
           ELSE /\ users' = SetDoc(users, email, UserData(su))
                /\ IF role = "student"
                     THEN signup' = [su EXCEPT !.step = "faceCapture", !.imgSrc = FALSE]
                     ELSE signup' = StartFinalSubmit(su)
    /\ UNCHANGED <<verifyVars, dashboardVars, authUsers, authCurrent, faces, login,
                   listener, currentUser, view, history>>

\* handleDetailsSubmit: a validation failure shows an error; a student goes
\* on to the face capture (whose effect clears the image), a faculty member
\* to handleFinalSubmit.
handleDetailsSubmit(role, email, valid) ==
    /\ view = "signup"
    /\ currentUser = None
    /\ signup.step = "details"
    /\ signup.pc = "none"
    /\ LET su == [signup EXCEPT !.role = role, !.email = email, !.error = None] IN
         IF ~valid
           THEN signup' = [su EXCEPT !.error = "Name, email, and password cannot be empty."]
           ELSE IF role = "student"
             THEN signup' = [su EXCEPT !.step = "faceCapture", !.imgSrc = FALSE]
             ELSE signup' = StartFinalSubmit(su)
    /\ UNCHANGED <<verifyVars, dashboardVars, authUsers, authCurrent, users, faces, login, listener,
                   currentUser, view, history>>

\* Face capture step: Capture Photo, Retake, Go Back.
capture ==
    /\ view = "signup" /\ currentUser = None
    /\ signup.step = "faceCapture" /\ ~signup.imgSrc
    /\ signup' = [signup EXCEPT !.imgSrc = TRUE]
    /\ UNCHANGED <<verifyVars, dashboardVars, authUsers, authCurrent, users, faces, login, listener,
                   currentUser, view, history>>

Retake ==
    /\ view = "signup" /\ currentUser = None
    /\ signup.step = "faceCapture" /\ signup.imgSrc
    /\ signup' = [signup EXCEPT !.imgSrc = FALSE]
    /\ UNCHANGED <<verifyVars, dashboardVars, authUsers, authCurrent, users, faces, login, listener,
                   currentUser, view, history>>

GoBack ==
    /\ view = "signup" /\ currentUser = None
    /\ signup.step = "faceCapture"
    /\ signup' = [signup EXCEPT !.step = "details"]
    /\ UNCHANGED <<verifyVars, dashboardVars, authUsers, authCurrent, users, faces, login, listener,
                   currentUser, view, history>>

\* Face capture step: "Create Account" (shown once an image is captured).
handleFinalSubmit ==
    /\ view = "signup" /\ currentUser = None
    /\ signup.step = "faceCapture" /\ signup.imgSrc
    /\ signup' = StartFinalSubmit(signup)
    /\ UNCHANGED <<verifyVars, dashboardVars, authUsers, authCurrent, users, faces, login, listener,
                   currentUser, view, history>>

\* createUserWithEmailAndPassword has settled.  It rejects with
\* auth/email-already-in-use when the e-mail has an identity, and may reject
\* with auth/weak-password or another error; otherwise the new identity exists
\* and is signed in, which starts the App's auth-state callback.
CreateUserSettled(outcome, uid) ==
    /\ signup.pc = "createUser"
    /\ IF outcome = "ok" /\ ~EmailTaken(signup.email)
         THEN /\ uid \notin AuthUids
              /\ authUsers' = authUsers \cup {[uid |-> uid, email |-> signup.email]}
              /\ authCurrent' = uid
              /\ listener' = ListenerFired(listener, uid)
              /\ IF signup.imgSrc /\ signup.role = "student"
                   THEN signup' = [signup EXCEPT !.uid = uid, !.stage = "uploading_photo",
                                                 !.pc = "uploadString"]
                   ELSE signup' = [signup EXCEPT !.uid = uid, !.stage = "saving_user_data",
                                                 !.pc = "setDoc"]
         ELSE /\ signup' = SignUpCatch(signup,
                              IF EmailTaken(signup.email) THEN "auth/email-already-in-use"
                              ELSE IF outcome = "ok" THEN "auth/network-request-failed"
                              ELSE outcome)
              /\ UNCHANGED <<authUsers, authCurrent, listener>>
    /\ UNCHANGED <<verifyVars, dashboardVars, users, faces, login, currentUser, view, history>>

\* uploadString(storageRef, imgSrc, 'data_url') has settled.
UploadSettled(ok) ==
    /\ signup.pc = "uploadString"
    /\ IF ok
         THEN /\ faces' = faces \cup {signup.uid}
              /\ signup' = [signup EXCEPT !.pc = "getDownloadURL"]
              /\ UNCHANGED history
         ELSE /\ signup' = SignUpCatch(signup, "storage/unknown")
              /\ history' = SetDoc(history, signup.uid, "upload_failed")
              /\ UNCHANGED faces
    /\ UNCHANGED <<verifyVars, dashboardVars, authUsers, authCurrent, users, login, listener,
                   currentUser, view>>

\* getDownloadURL(storageRef) has settled.
DownloadUrlSettled(ok) ==
    /\ signup.pc = "getDownloadURL"
    /\ IF ok
         THEN /\ signup' = [signup EXCEPT !.stage = "saving_user_data", !.pc = "setDoc"]
              /\ UNCHANGED history
         ELSE /\ signup' = SignUpCatch(signup, "storage/unknown")
              /\ history' = SetDoc(history, signup.uid, "upload_failed")
    /\ UNCHANGED <<verifyVars, dashboardVars, authUsers, authCurrent, users, faces, login, listener,
                   currentUser, view>>

\* setDoc(doc(db, "users", uid), userData) has settled: on success the stage
\* is 'complete', the step 'success', and the 1500 ms timer is set.
ProfileWriteSettled(ok) ==
    /\ signup.pc = "setDoc"
    /\ IF ok
         THEN /\ users' = SetDoc(users, signup.uid, UserData(signup))
              /\ signup' = [signup EXCEPT !.stage = "complete", !.step = "success",
                                          !.pc = "timer"]
              /\ history' = SetDoc(history, signup.uid, "complete")
         ELSE /\ signup' = SignUpCatch(signup, "permission-denied")
              /\ history' = SetDoc(history, signup.uid, "profile_write_failed")
              /\ UNCHANGED users
    /\ UNCHANGED <<verifyVars, dashboardVars, authUsers, authCurrent, faces, login, listener,
                   currentUser, view>>

\* The timer fires: onSignUpSuccess(user), which is App.handleSignUpSuccess.
SignUpTimerFired ==
    /\ signup.pc = "timer"
    /\ currentUser' = signup.uid
    /\ signup' = [signup EXCEPT !.pc = "none"]
    /\ UNCHANGED <<verifyVars, dashboardVars, authUsers, authCurrent, users, faces, login, listener,
                   view, history>>

\* LoginPage.handleSubmit up to the await of signInWithEmailAndPassword.
LoginSubmit(email, passwordOk) ==
    /\ view = "login"
    /\ currentUser = None
    /\ login.stage = "idle"
    /\ signup.pc = "none"
    /\ login' = [stage |-> "authenticating", error |-> None,
                 pc |-> IF passwordOk THEN "signIn" ELSE "signInWrongPassword",
                 email |-> email, uid |-> None]
    /\ UNCHANGED <<verifyVars, dashboardVars, authUsers, authCurrent, users, faces, signup, listener,
                   currentUser, view, history>>

\* signInWithEmailAndPassword has settled: the identity is signed in (the
\* auth-state callback starts when the signed-in user changes) and getDoc on
\* users/{uid} starts; or the catch block shows an error.
SignInSettled(ok) ==
    /\ login.pc \in {"signIn", "signInWrongPassword"}
    /\ IF ok /\ login.pc = "signIn" /\ EmailTaken(login.email)
         THEN LET uid == UidOf(login.email) IN
              /\ authCurrent' = uid
              /\ listener' = IF authCurrent = uid THEN listener
                             ELSE ListenerFired(listener, uid)
              /\ login' = [login EXCEPT !.stage = "fetching_data", !.pc = "getDoc",
                                        !.uid = uid]
         ELSE /\ login' = [login EXCEPT !.stage = "idle", !.pc = "none",
                              !.error = IF ok THEN "Invalid email or password."
                                        ELSE "An unexpected error occurred. Please try again."]
              /\ UNCHANGED <<authCurrent, listener>>
    /\ UNCHANGED <<verifyVars, dashboardVars, authUsers, users, faces, signup, currentUser, view, history>>

\* Variant: a missing profile document is reported without auth.signOut().
LoginDocSettledNoSignOut(ok) ==
    /\ login.pc = "getDoc"
    /\ IF ~ok
         THEN login' = [login EXCEPT !.stage = "idle", !.pc = "none",
                          !.error = "An unexpected error occurred. Please try again."]
         ELSE IF login.uid \in DOMAIN users
           THEN login' = [login EXCEPT !.pc = "navigating"]
           ELSE login' = [login EXCEPT !.stage = "idle", !.pc = "rejected",
                            !.error = "Your user data could not be found."]
    /\ UNCHANGED <<verifyVars, dashboardVars, authUsers, authCurrent, users, faces, signup, listener,
                   currentUser, view, history>>

\* getDoc(userDocRef) has settled: a rejection lands in the catch block; an
\* existing profile leaves the page waiting for the App to navigate; a missing
\* profile starts auth.signOut().
LoginDocSettled(ok) ==
    /\ login.pc = "getDoc"
    /\ IF ~ok
         THEN login' = [login EXCEPT !.stage = "idle", !.pc = "none",
                          !.error = "An unexpected error occurred. Please try again."]
         ELSE IF login.uid \in DOMAIN users
           THEN login' = [login EXCEPT !.pc = "navigating"]
           ELSE login' = [login EXCEPT !.pc = "signOut"]
    /\ UNCHANGED <<verifyVars, dashboardVars, authUsers, authCurrent, users, faces, signup, listener,
                   currentUser, view, history>>

\* auth.signOut(): nobody is signed in afterwards; when somebody was, the
\* auth-state callback runs with null and sets currentUser to null.
SignedOutUser(cu) == IF authCurrent = None THEN cu ELSE None

\* The auth.signOut() of LoginPage has settled: the error is shown and the
\* stage is 'idle' again.
LoginSignOutSettled ==
    /\ login.pc = "signOut"
    /\ authCurrent' = None
    /\ currentUser' = SignedOutUser(currentUser)
    /\ login' = [login EXCEPT !.stage = "idle", !.pc = "rejected",
                   !.error = "Your user data could not be found."]
    /\ UNCHANGED <<verifyVars, dashboardVars, authUsers, users, faces, signup, listener, view, history>>

\* Variant: the callback takes the signed-in user as current user without
\* looking at userDoc.exists.
ListenerDocSettledNoExistsCheck(run, ok) ==
    /\ run \in listener
    /\ run.pc = "getDoc"
    /\ IF ok
         THEN /\ currentUser' = run.uid
              /\ listener' = listener \ {run}
         ELSE /\ listener' = (listener \ {run}) \cup {[run EXCEPT !.pc = "signOut"]}
              /\ currentUser' \in {currentUser, None}
    /\ UNCHANGED <<verifyVars, dashboardVars, authUsers, authCurrent, users, faces, signup, login,
                   view, history>>

\* The getDoc of an auth-state callback has settled: an existing profile
\* becomes currentUser; a missing profile or a rejection starts auth.signOut().
\* One variant of App awaits the signOut before setCurrentUser(null), the
\* other calls setCurrentUser(null) at once.
ListenerDocSettled(run, ok) ==
    /\ run \in listener
    /\ run.pc = "getDoc"
    /\ IF ok /\ run.uid \in DOMAIN users
         THEN /\ currentUser' = run.uid
              /\ listener' = listener \ {run}
         ELSE /\ listener' = (listener \ {run}) \cup {[run EXCEPT !.pc = "signOut"]}
              /\ currentUser' \in {currentUser, None}
    /\ UNCHANGED <<verifyVars, dashboardVars, authUsers, authCurrent, users, faces, signup, login,
                   view, history>>

\* The auth.signOut() of an auth-state callback has settled, and the callback
\* sets currentUser to null.
ListenerSignOutSettled(run) ==
    /\ run \in listener
    /\ run.pc = "signOut"
    /\ authCurrent' = None
    /\ currentUser' = None
    /\ listener' = listener \ {run}
    /\ UNCHANGED <<verifyVars, dashboardVars, authUsers, users, faces, signup, login, view, history>>

\* App.handleLogout, from a dashboard.
handleLogout ==
    /\ currentUser # None
    /\ authCurrent' = None
    /\ currentUser' = None
    /\ view' = "login"
    /\ login' = MountedLogin
    /\ signup' = IF signup.pc = "none" THEN MountedSignUp ELSE signup
    /\ UNCHANGED <<verifyVars, dashboardVars, authUsers, users, faces, listener, history>>

-----------------------------------------------------------------------------
(* Code Generator: GenerateQrCode *)

REFRESH_INTERVAL_MS == 10000

\* Upper bound on the sessions started, over all mounts of the component.
MaxSessions == 2

\* Instants at which the clock is observed while sessions run.
GenTimePoints == {0, 5000, 10000, 15000, 20000, 25000}
\* Document ids of the courses the faculty user creates and selects.
GenCourseIds == {"c1", "c2"}
\* What getCurrentPosition() resolves with on the faculty side.
GenPositions == {100}

\* qrData = null.
NullQrData ==
    [sessionId |-> -1, courseId |-> None, facultyId |-> None, timestamp |-> -1,
     location |-> -1]

\* GenerateQrCode as mounted for the faculty user: selectedCourse '',
\* sessionActive false, qrData null, error null, intervalRef.current null.
\* History: session counts the sessions started, qrSession is the session
\* whose generation produced qrData, starts are the instants at which the
\* generations of the current session started.
MountedGenerator(faculty) ==
    [mounted |-> TRUE, faculty |-> faculty, selectedCourse |-> None,
     sessionActive |-> FALSE, qrData |-> NullQrData, error |-> None,
     intervalRef |-> 0, session |-> 0, qrSession |-> 0, starts |-> <<>>]

UnmountedGenerator == [MountedGenerator(None) EXCEPT !.mounted = FALSE]

\* The run of generateNewQrData a session starts at the instant t: the closure
\* holds the session's selectedCourse and currentUser.
Generation(session, t, course, faculty) ==
    [session |-> session, started |-> t, course |-> course, faculty |-> faculty,
     alive |-> TRUE]

\* The QrCodeData generateNewQrData builds once the position has arrived.
NewQrData(g, t, position) ==
    [sessionId |-> t, courseId |-> g.course, facultyId |-> g.faculty,
     timestamp |-> t, location |-> position]

\* FacultyDashboard mounts with the 'qr' tab for the signed-in faculty user.
MountGenerator(faculty) ==
    /\ ~qr.mounted
    /\ qr' = [MountedGenerator(faculty) EXCEPT !.session = qr.session]
    /\ UNCHANGED <<verifyVars, accountVars, reportVars, timers, generations>>

\* The course <select>, disabled while a session is active; the options are
\* the faculty user's courses.
SelectCourse(c) ==
    /\ qr.mounted
    /\ ~qr.sessionActive
    /\ c \in DOMAIN courses
    /\ courses[c].facultyId = qr.faculty
    /\ qr' = [qr EXCEPT !.selectedCourse = c]
    /\ UNCHANGED <<verifyVars, accountVars, reportVars, timers, generations>>

\* Variant: the session started without the immediate generateNewQrData().
startSessionTimerOnly ==
    /\ qr.mounted
    /\ ~qr.sessionActive
    /\ qr.session < MaxSessions
    /\ IF qr.selectedCourse = None
         THEN /\ qr' = [qr EXCEPT !.error = "Please select a course first."]
              /\ UNCHANGED <<timers, generations>>
         ELSE LET n == qr.session + 1 IN
              /\ qr' = [qr EXCEPT !.sessionActive = TRUE, !.session = n,
                                  !.intervalRef = n, !.starts = <<>>]
              /\ UNCHANGED generations
              /\ timers' = timers \cup
                   {[id |-> n, due |-> now + REFRESH_INTERVAL_MS,
                     course |-> qr.selectedCourse, faculty |-> qr.faculty]}
    /\ UNCHANGED <<verifyVars, accountVars, reportVars>>

\* startSession ("Start Session", shown while no session is active): without
\* a course an error; otherwise sessionActive, a generateNewQrData() run up to
\* its await, and setInterval(generateNewQrData, 10000).
startSession ==
    /\ qr.mounted
    /\ ~qr.sessionActive
    /\ qr.session < MaxSessions
    /\ IF qr.selectedCourse = None
         THEN /\ qr' = [qr EXCEPT !.error = "Please select a course first."]
              /\ UNCHANGED <<timers, generations>>
         ELSE LET n == qr.session + 1 IN
              /\ qr' = [qr EXCEPT !.sessionActive = TRUE, !.session = n,
                                  !.intervalRef = n, !.starts = <<now>>]
              /\ generations' = generations \cup
                   {Generation(n, now, qr.selectedCourse, qr.faculty)}
              /\ timers' = timers \cup
                   {[id |-> n, due |-> now + REFRESH_INTERVAL_MS,
                     course |-> qr.selectedCourse, faculty |-> qr.faculty]}
    /\ UNCHANGED <<verifyVars, accountVars, reportVars>>

\* stopSession on the component state: sessionActive false, qrData null,
\* intervalRef.current null.
StoppedGenerator(q) ==
    [q EXCEPT !.sessionActive = FALSE, !.qrData = NullQrData, !.qrSession = 0,
              !.intervalRef = 0]

\* Variant: clearInterval leaves the timer running.
ClearIntervalKeepsTimer(ts, ref) == ts

\* clearInterval(intervalRef.current), when the ref holds a timer.
ClearInterval(ts, ref) == {tm \in ts : tm.id # ref}

\* stopSession ("Stop Session", shown while a session is active).
stopSession ==
    /\ qr.mounted
    /\ qr.sessionActive
    /\ qr' = StoppedGenerator(qr)
    /\ timers' = ClearInterval(timers, qr.intervalRef)
    /\ UNCHANGED <<verifyVars, accountVars, reportVars, generations>>

\* The interval timer fires when it is due: a generateNewQrData() run of the
\* closure the timer was set with, up to its await.
IntervalFired(tm) ==
    /\ tm \in timers
    /\ now = tm.due
    /\ timers' = (timers \ {tm}) \cup {[tm EXCEPT !.due = @ + REFRESH_INTERVAL_MS]}
    /\ generations' = generations \cup {Generation(tm.id, now, tm.course, tm.faculty)}
    /\ qr' = [qr EXCEPT !.starts = Append(@, now)]
    /\ UNCHANGED <<verifyVars, accountVars, reportVars>>

\* Variant: the catch block reports the error without stopSession().
GenerationSettledNoStop(g, ok, position) ==
    /\ g \in generations
    /\ generations' = generations \ {g}
    /\ IF ~g.alive
         THEN UNCHANGED <<qr, timers>>
         ELSE IF ok
           THEN /\ qr' = [qr EXCEPT !.qrData = NewQrData(g, now, position),
                                    !.qrSession = g.session, !.error = None]
                /\ UNCHANGED timers
           ELSE /\ qr' = [qr EXCEPT !.error =
                             "Could not get location. Please enable location services."]
                /\ UNCHANGED timers
    /\ UNCHANGED <<verifyVars, accountVars, reportVars>>

\* getCurrentPosition() of a generateNewQrData run has settled: setQrData and
\* setError(null), or the catch block: setError and stopSession().  The state
\* setters of an unmounted component do nothing.
GenerationSettled(g, ok, position) ==
    /\ g \in generations
    /\ generations' = generations \ {g}
    /\ IF ~g.alive
         THEN UNCHANGED <<qr, timers>>
         ELSE IF ok
           THEN /\ qr' = [qr EXCEPT !.qrData = NewQrData(g, now, position),
                                    !.qrSession = g.session, !.error = None]
                /\ UNCHANGED timers
           ELSE /\ qr' = [StoppedGenerator(qr) EXCEPT !.error =
                             "Could not get location. Please enable location services."]
                /\ timers' = ClearInterval(timers, qr.intervalRef)
    /\ UNCHANGED <<verifyVars, accountVars, reportVars>>

\* The component unmounts (another tab, logout): the cleanup clears the
\* interval; the runs still awaiting the position belong to the old instance.
UnmountGenerator ==
    /\ qr.mounted
    /\ qr' = [UnmountedGenerator EXCEPT !.session = qr.session]
    /\ timers' = ClearInterval(timers, qr.intervalRef)
    /\ generations' = {[g EXCEPT !.alive = FALSE] : g \in generations}
    /\ UNCHANGED <<verifyVars, accountVars, reportVars>>

\* Time passes; an interval timer fires when it is due, not later.
GenAdvance(t) ==
    /\ t > now
    /\ \A tm \in timers : t <= tm.due
    /\ now' = t
    /\ UNCHANGED <<day, attendance, courses, attempts, accountVars, dashboardVars>>

-----------------------------------------------------------------------------
(* Number arithmetic of the report: presentCount / totalClasses and the     *)
(* product with 100 are IEEE 754 binary64 operations, each rounded to 53    *)
(* significant bits, ties to even.  A Number is kept as its binary digits,  *)
(* most significant first, the last frac of them after the binary point.    *)

SIGNIFICAND_BITS == 53
\* Digits of a quotient worked out before rounding, by groups of GROUP_BITS.
GROUP_BITS == 8
QUOTIENT_GROUPS == 9

\* The last w binary digits of the natural number v.
Digits(v, w) == [i \in 1..w |-> (v \div 2^(w - i)) % 2]

\* The binary digits of the natural number v < 2^30; none for 0.
BitsOf(v) == Digits(v, CHOOSE w \in 0..30 : 2^w > v /\ (w = 0 \/ 2^(w - 1) <= v))

RECURSIVE BitsValue(_)
\* The natural number with the binary digits bits.
BitsValue(bits) ==
    IF bits = <<>> THEN 0
    ELSE 2 * BitsValue(SubSeq(bits, 1, Len(bits) - 1)) + bits[Len(bits)]

RECURSIVE FractionBits(_, _, _)
\* The first groups * GROUP_BITS binary digits of r / t after the point, r < t.
FractionBits(r, t, groups) ==
    IF groups = 0 THEN <<>>
    ELSE Digits((r * 2^GROUP_BITS) \div t, GROUP_BITS)
         \o FractionBits((r * 2^GROUP_BITS) % t, t, groups - 1)

RECURSIVE FractionRest(_, _, _)
\* The remainder of the division after those digits.
FractionRest(r, t, groups) ==
    IF groups = 0 THEN r ELSE FractionRest((r * 2^GROUP_BITS) % t, t, groups - 1)

\* The number of zeros before the first 1 in bits.
LeadingZeros(bits) ==
    Cardinality({i \in 1..Len(bits) : \A j \in 1..i : bits[j] = 0})

\* bits + 1 in the last place; a carry out of the first place adds a digit.
Increment(bits) ==
    LET ones == Cardinality({i \in 1..Len(bits) :
                               \A j \in i..Len(bits) : bits[j] = 1})
        keep == Len(bits) - ones IN
    (IF keep = 0 THEN <<1>> ELSE SubSeq(bits, 1, keep - 1) \o <<1>>)
      \o [i \in 1..ones |-> 0]

RECURSIVE TimesSmall(_, _, _)
\* bits * k + carry, a group of digits at a time from the last place.
TimesSmall(bits, k, carry) ==
    IF bits = <<>> THEN BitsOf(carry)
    ELSE LET n == Len(bits)
             w == IF n < GROUP_BITS THEN n ELSE GROUP_BITS
             acc == BitsValue(SubSeq(bits, n - w + 1, n)) * k + carry IN
         TimesSmall(SubSeq(bits, 1, n - w), k, acc \div 2^w) \o Digits(acc % 2^w, w)

\* Round to nearest, ties to even, keeping SIGNIFICAND_BITS significant
\* digits of x; inexact tells that x already lost digits below its last one.
RoundToNearestEven(x, inexact) ==
    LET kept == LeadingZeros(x.bits) + SIGNIFICAND_BITS
        n == Len(x.bits) IN
    IF n <= kept THEN x
    ELSE LET head == SubSeq(x.bits, 1, kept)
             sticky == inexact \/ \E i \in (kept + 2)..n : x.bits[i] = 1
             up == x.bits[kept + 1] = 1 /\ (sticky \/ x.bits[kept] = 1) IN
         [bits |-> IF up THEN Increment(head) ELSE head,
          frac |-> x.frac - (n - kept)]

\* a / b for naturals a and b > 0.
NumberDivide(a, b) ==
    RoundToNearestEven(
        [bits |-> BitsOf(a \div b) \o FractionBits(a % b, b, QUOTIENT_GROUPS),
         frac |-> QUOTIENT_GROUPS * GROUP_BITS],
        FractionRest(a % b, b, QUOTIENT_GROUPS) # 0)

\* x * k for a Number x and a natural k.
NumberTimes(x, k) ==
    RoundToNearestEven([bits |-> TimesSmall(x.bits, k, 0), frac |-> x.frac], FALSE)

\* Math.round(x) for x >= 0: the nearest integer, a tie going up.
MathRound(x) ==
    LET n == Len(x.bits) IN
    IF x.frac <= 0 THEN BitsValue(x.bits) * 2^(0 - x.frac)
    ELSE BitsValue(SubSeq(x.bits, 1, n - x.frac)) + x.bits[n - x.frac + 1]

\* Math.round((presentCount / totalClasses) * 100)
Percentage(presentCount, totalClasses) ==
    MathRound(NumberTimes(NumberDivide(presentCount, totalClasses), 100))


-----------------------------------------------------------------------------
(* The Report Aggregator: AttendanceReports of the faculty dashboard *)

\* Upper bound on the class dates of a course in the stores a report reads.
MaxClasses == 40
\* Upper bound on the runs of generateReport one mounted component starts.
MaxReportRuns == 2

\* The value of the placeholder option "-- Select a Course --".
NoCourse == ""

\* AttendanceReports as mounted: no course selected, no rows, not loading.
MountedReports ==
    [mounted |-> TRUE, selectedCourseId |-> NoCourse, reportData |-> {},
     loading |-> FALSE, started |-> 0]

UnmountedReports == [MountedReports EXCEPT !.mounted = FALSE]

\* A run of generateReport for course c, up to its await of getDoc; queries
\* lists the collections the run has sent a read to.
ReportRun(id, c) ==
    [id |-> id, courseId |-> c, pc |-> "getCourse", studentIds |-> <<>>,
     students |-> {}, queries |-> <<"courses">>]

ReplaceRun(run, new) == (reportRuns \ {run}) \cup {new}

\* The run has returned or thrown: its locals are gone.
EndRun(run, pc) ==
    ReplaceRun(run, [run EXCEPT !.pc = pc, !.studentIds = <<>>, !.students = {}])

\* facultyCourses: the courses whose facultyId is the signed-in user.
facultyCourses == {c \in DOMAIN courses : courses[c].facultyId = currentUser}

\* (courseDoc.data() as Course)?.studentIds || []
StudentIdsOf(c) == IF c \in DOMAIN courses THEN courses[c].studentIds ELSE <<>>

\* The documents of getDocs(query(attendance, where('courseId', '==', c))).
AllRecords(c) == {id \in DOMAIN attendance : attendance[id].courseId = c}

\* [...new Set(allRecords.map(r => r.date))].length || 1
TotalClasses(allRecords) ==
    LET dates == {attendance[id].date : id \in allRecords} IN
    IF Cardinality(dates) = 0 THEN 1 ELSE Cardinality(dates)

\* Variant: the filter without its studentId condition.
PresentCountAnyStudent(allRecords, studentId) ==
    Cardinality({id \in allRecords : attendance[id].status = "present"})

\* allRecords.filter(r => r.studentId === student.id && r.status === 'present').length
PresentCount(allRecords, studentId) ==
    Cardinality({id \in allRecords : /\ attendance[id].studentId = studentId
                                     /\ attendance[id].status = "present"})

\* { ...student, presentCount, totalClasses, percentage }
ReportRow(studentId, allRecords) ==
    [id |-> studentId,
     presentCount |-> PresentCount(allRecords, studentId),
     totalClasses |-> TotalClasses(allRecords),
     percentage |-> Percentage(PresentCount(allRecords, studentId),
                               TotalClasses(allRecords))]

\* The faculty user opens the Attendance Reports tab; the report effect runs
\* with selectedCourseId '' and sets reportData to [].
MountReports ==
    /\ ~report.mounted
    /\ currentUser \in DOMAIN users
    /\ users[currentUser].role = "faculty"
    /\ report' = MountedReports
    /\ UNCHANGED <<verifyVars, accountVars, qr, timers, generations, reportRuns>>

\* onChange of the course select, and the effect on [selectedCourseId]:
\* generateReport up to its first await.
setSelectedCourseId(c) ==
    /\ report.mounted
    /\ c \in facultyCourses \cup {NoCourse}
    /\ c # report.selectedCourseId
    /\ IF c = NoCourse
         THEN /\ report' = [report EXCEPT !.selectedCourseId = c, !.reportData = {}]
              /\ UNCHANGED reportRuns
         ELSE /\ report.started < MaxReportRuns
              /\ report' = [report EXCEPT !.selectedCourseId = c, !.loading = TRUE,
                                          !.started = @ + 1]
              /\ reportRuns' = reportRuns \cup {ReportRun(report.started + 1, c)}
    /\ UNCHANGED <<verifyVars, accountVars, qr, timers, generations>>

\* Variant: no early return for a course without students; the run goes on
\* to the users query.
CourseDocSettledNoEarlyReturn(run, ok) ==
    /\ run.pc = "getCourse"
    /\ IF ok
         THEN reportRuns' = ReplaceRun(run, [run EXCEPT !.pc = "getStudents",
                                               !.studentIds = StudentIdsOf(run.courseId),
                                               !.queries = Append(@, "users")])
         ELSE reportRuns' = EndRun(run, "rejected")
    /\ UNCHANGED <<verifyVars, accountVars, qr, timers, generations, report>>

\* getDoc(doc(db, 'courses', selectedCourseId)) has settled.  A rejection is
\* not caught: the run ends there.  Without students the run sets
\* reportData to [] and loading to false and returns.
CourseDocSettled(run, ok) ==
    /\ run.pc = "getCourse"
    /\ IF ok
         THEN IF Len(StudentIdsOf(run.courseId)) = 0
                THEN /\ report' = [report EXCEPT !.reportData = {}, !.loading = FALSE]
                     /\ reportRuns' = EndRun(run, "done")
                ELSE /\ reportRuns' = ReplaceRun(run,
                                         [run EXCEPT !.pc = "getStudents",
                                                     !.studentIds = StudentIdsOf(run.courseId),
                                                     !.queries = Append(@, "users")])
                     /\ UNCHANGED report
         ELSE /\ reportRuns' = EndRun(run, "rejected")
              /\ UNCHANGED report
    /\ UNCHANGED <<verifyVars, accountVars, qr, timers, generations>>

\* getDocs(query(users, where('__name__', 'in', studentIds))) has settled:
\* students are the profiles that exist among studentIds.
StudentsSnapSettled(run, ok) ==
    /\ run.pc = "getStudents"
    /\ IF ok
         THEN reportRuns' = ReplaceRun(run,
                               [run EXCEPT !.pc = "getAttendance",
                                           !.students = {u \in DOMAIN users :
                                                           InSeq(u, run.studentIds)},
                                           !.queries = Append(@, "attendance")])
         ELSE reportRuns' = EndRun(run, "rejected")
    /\ UNCHANGED <<verifyVars, accountVars, qr, timers, generations, report>>

\* getDocs(query(attendance, where('courseId', '==', selectedCourseId))) has
\* settled: one row per student, setReportData(data), setLoading(false).
AttendanceSnapSettled(run, ok) ==
    /\ run.pc = "getAttendance"
    /\ IF ok
         THEN /\ report' = [report EXCEPT
                              !.reportData = {ReportRow(u, AllRecords(run.courseId)) :
                                                u \in run.students},
                              !.loading = FALSE]
              /\ reportRuns' = EndRun(run, "done")
         ELSE /\ reportRuns' = EndRun(run, "rejected")
              /\ UNCHANGED report
    /\ UNCHANGED <<verifyVars, accountVars, qr, timers, generations>>

-----------------------------------------------------------------------------
EmptyStore == [k \in {} |-> None]

\* verifyFace has not been called since the last registration.
NoVerification == [service |-> None, success |-> FALSE, uid |-> None]

\* localStorage without 'face_recognition_data' and 'face_recognition_uids'.
\* History: latestFace and latestUid are the uids of the latest registerFace
\* call of each service, verified is the result of the last verifyFace call.
EmptyRegistry ==
    [faces |-> <<>>, latestFace |-> None, uids |-> <<>>, latestUid |-> None,
     verified |-> NoVerification]

\* A component whose effect has not run: no cleanup function, no state.
\* run counts the runs of the effect, cleanup holds the ids of the
\* subscriptions the cleanup returned by the last run releases.
UnmountedEffect ==
    [mounted |-> FALSE, version |-> None, faculty |-> None, run |-> 0,
     facultyCourses |-> 0, cleanup |-> {}]

\* No onSnapshot listener is active; opened counts the listeners opened.
NoSubscriptions ==
    [active |-> {}, opened |-> 0, timetable |-> UnmountedEffect,
     live |-> UnmountedEffect]

Init ==
    /\ now = 0
    /\ day = 1
    /\ attendance = EmptyStore
    /\ courses = EmptyStore
    /\ attempts = [a \in AttemptIds |-> ClosedAttempt]
    /\ authUsers = {}
    /\ authCurrent = None
    /\ users = EmptyStore
    /\ faces = {}
    /\ signup = MountedSignUp
    /\ login = MountedLogin
    /\ listener = {}
    /\ currentUser = None
    /\ view = "login"
    /\ history = EmptyStore
    /\ qr = UnmountedGenerator
    /\ timers = {}
    /\ generations = {}
    /\ report = UnmountedReports
    /\ reportRuns = {}
    /\ scanners = {}
    /\ registry = EmptyRegistry
    /\ subscriptions = NoSubscriptions

\* The steps of the scanners in A.
ScanNext(A) ==
    \/ \E a \in A, u \in Students : OpenScanner(a, u)
    \/ \E a \in A, text \in DecodedTexts : ScanDecoded(a, text)
    \/ \E a \in A : StopSettled(a)
    \/ \E a \in A, ok \in BOOLEAN, position \in StudentPositions :
          PositionSettled(a, ok, position)
    \/ \E a \in A, ok \in BOOLEAN : SetDocSettled(a, ok)
    \/ \E a \in A, ok \in BOOLEAN : UpdateDocSettled(a, ok)
    \/ \E a \in A : CloseModal(a)

FacultyNext ==
    \/ \E c \in CourseDocIds, f \in CourseOwners : CreateCourse(c, f)
    \/ \E c \in CourseDocIds, s \in Students, d \in 1..MaxDay, ok \in BOOLEAN :
          handleManualMark(c, s, d, ok)

ClockNext ==
    \/ \E t \in TimePoints : Tick(t)
    \/ NextDay

Next == ScanNext(SeqAttempts) \/ FacultyNext \/ ClockNext

Spec == Init /\ [][Next]_vars

SignUpNext ==
    \/ NavigateToSignUp
    \/ NavigateToLogin
    \/ \E role \in Roles, email \in Emails, valid \in BOOLEAN :
          handleDetailsSubmit(role, email, valid)
    \/ capture
    \/ Retake
    \/ GoBack
    \/ handleFinalSubmit
    \/ \E outcome \in {"ok", "auth/weak-password", "auth/network-request-failed"},
          uid \in Uids : CreateUserSettled(outcome, uid)
    \/ \E ok \in BOOLEAN : UploadSettled(ok)
    \/ \E ok \in BOOLEAN : DownloadUrlSettled(ok)
    \/ \E ok \in BOOLEAN : ProfileWriteSettled(ok)
    \/ SignUpTimerFired

LoginNext ==
    \/ \E email \in Emails, passwordOk \in BOOLEAN : LoginSubmit(email, passwordOk)
    \/ \E ok \in BOOLEAN : SignInSettled(ok)
    \/ \E ok \in BOOLEAN : LoginDocSettled(ok)
    \/ LoginSignOutSettled

AppNext ==
    \/ \E run \in listener, ok \in BOOLEAN : ListenerDocSettled(run, ok)
    \/ \E run \in listener : ListenerSignOutSettled(run)
    \/ handleLogout

AccountNext == SignUpNext \/ LoginNext \/ AppNext

\* The accounts alone: signup, login and the auth-state listener.
SpecAccounts == Init /\ [][AccountNext]_vars

GeneratorNext ==
    \/ \E c \in GenCourseIds, f \in CourseOwners : CreateCourse(c, f)
    \/ \E f \in CourseOwners : MountGenerator(f)
    \/ \E c \in GenCourseIds : SelectCourse(c)
    \/ startSession
    \/ stopSession
    \/ \E tm \in timers : IntervalFired(tm)
    \/ \E g \in generations, ok \in BOOLEAN, position \in GenPositions :
          GenerationSettled(g, ok, position)
    \/ UnmountGenerator
    \/ \E t \in GenTimePoints : GenAdvance(t)

\* The Code Generator alone.
SpecGenerator == Init /\ [][GeneratorNext]_vars

\* Concurrent check-ins of one student on one day: two scanners (two devices,
\* or two decode callbacks of one scanner) and the manual mark, on fresh
\* tokens of the same course issued by either faculty member.
RaceStudents == {"s1"}
RaceTexts == {t \in QrCodeData : t.timestamp = 0}
RacePositions == {2100}

RaceNext ==
    \/ \E a \in AttemptIds, u \in RaceStudents : OpenScanner(a, u)
    \/ \E a \in AttemptIds, text \in RaceTexts : ScanDecoded(a, text)
    \/ \E a \in AttemptIds : StopSettled(a)
    \/ \E a \in AttemptIds, ok \in BOOLEAN, position \in RacePositions :
          PositionSettled(a, ok, position)
    \/ \E a \in AttemptIds, ok \in BOOLEAN : SetDocSettled(a, ok)
    \/ \E a \in AttemptIds, ok \in BOOLEAN : UpdateDocSettled(a, ok)
    \/ \E a \in AttemptIds : CloseModal(a)
    \/ \E c \in CourseDocIds, f \in CourseOwners : CreateCourse(c, f)
    \/ \E c \in CourseDocIds, u \in RaceStudents, d \in 1..MaxDay, ok \in BOOLEAN :
          handleManualMark(c, u, d, ok)
    \/ NextDay

SpecRace == Init /\ [][RaceNext]_vars

\* Enrollment over the accounts: users sign up, the signed-in student scans,
\* the signed-in faculty user creates courses, marks manually and deletes
\* students.
EnrollNext ==
    \/ NavigateToSignUp
    \/ \E role \in Roles, email \in Emails : handleDetailsSubmit(role, email, TRUE)
    \/ capture
    \/ handleFinalSubmit
    \/ \E uid \in Uids : CreateUserSettled("ok", uid)
    \/ UploadSettled(TRUE)
    \/ DownloadUrlSettled(TRUE)
    \/ ProfileWriteSettled(TRUE)
    \/ SignUpTimerFired
    \/ \E run \in listener : ListenerDocSettled(run, TRUE)
    \/ \E run \in listener : ListenerSignOutSettled(run)
    \/ handleLogout
    \/ \E a \in SeqAttempts, u \in Uids :
          /\ currentUser = u
          /\ u \in DOMAIN users => users[u].role = "student"
          /\ OpenScanner(a, u)
    \/ \E a \in SeqAttempts, text \in RaceTexts : ScanDecoded(a, text)
    \/ \E a \in SeqAttempts : StopSettled(a)
    \/ \E a \in SeqAttempts, position \in RacePositions : PositionSettled(a, TRUE, position)
    \/ \E a \in SeqAttempts, ok \in BOOLEAN : SetDocSettled(a, ok)
    \/ \E a \in SeqAttempts, ok \in BOOLEAN : UpdateDocSettled(a, ok)
    \/ \E a \in SeqAttempts : CloseModal(a)
    \/ \E c \in CourseDocIds, f \in Uids :
          /\ currentUser = f
          /\ f \in DOMAIN users
          /\ users[f].role = "faculty"
          /\ CreateCourse(c, f)
    \/ \E c \in CourseDocIds, u \in Uids :
          /\ currentUser \in DOMAIN users
          /\ users[currentUser].role = "faculty"
          /\ handleManualMark(c, u, day, TRUE)
    \/ \E u \in Uids, ok \in BOOLEAN : handleDelete(u, ok)

SpecEnroll == Init /\ [][EnrollNext]_vars

\* The reports of a signed-in faculty user over the stores of a term: course
\* c1 has held `classes` class dates, student s2 was marked present on each
\* of them and student s1 on the first `attended`; both checked in by QR on
\* their first date, s2 first.
ReportFaculty == "f1"

TermRecords(attended, classes) ==
    LET docs == {ManualAttendanceDoc("s1", "c1", DateString(d), ReportFaculty) :
                    d \in 1..attended}
                \cup {ManualAttendanceDoc("s2", "c1", DateString(d), ReportFaculty) :
                    d \in 1..classes} IN
    [id \in {AttendanceId(r.studentId, r.courseId, r.date) : r \in docs} |->
        CHOOSE r \in docs : AttendanceId(r.studentId, r.courseId, r.date) = id]

TermCourses(attended, classes) ==
    IF classes = 0 THEN EmptyStore
    ELSE [c \in {"c1"} |->
            [facultyId |-> ReportFaculty,
             studentIds |-> IF attended = 0 THEN <<"s2">> ELSE <<"s2", "s1">>]]

TermUsers ==
    [u \in {ReportFaculty} \cup Students |->
        [email |-> u, role |-> IF u = ReportFaculty THEN "faculty" ELSE "student",
         faceImageUrl |-> u # ReportFaculty]]

\* The state with those stores and the faculty user signed in.
TermInit(attended, classes) ==
    /\ now = 0
    /\ day = IF classes = 0 THEN 1 ELSE classes
    /\ attendance = TermRecords(attended, classes)
    /\ courses = TermCourses(attended, classes)
    /\ attempts = [a \in AttemptIds |-> ClosedAttempt]
    /\ authUsers = {[uid |-> u, email |-> u] : u \in DOMAIN TermUsers}
    /\ authCurrent = ReportFaculty
    /\ users = TermUsers
    /\ faces = Students
    /\ signup = MountedSignUp
    /\ login = MountedLogin
    /\ listener = {}
    /\ currentUser = ReportFaculty
    /\ view = "login"
    /\ history = [u \in DOMAIN TermUsers |-> "complete"]
    /\ qr = UnmountedGenerator
    /\ timers = {}
    /\ generations = {}
    /\ report = UnmountedReports
    /\ reportRuns = {}
    /\ scanners = {}
    /\ registry = EmptyRegistry
    /\ subscriptions = NoSubscriptions

\* The steps of AttendanceReports.
ReportSteps ==
    \/ MountReports
    \/ \E c \in CourseDocIds \cup {NoCourse} : setSelectedCourseId(c)
    \/ \E run \in reportRuns, ok \in BOOLEAN : CourseDocSettled(run, ok)
    \/ \E run \in reportRuns, ok \in BOOLEAN : StudentsSnapSettled(run, ok)
    \/ \E run \in reportRuns, ok \in BOOLEAN : AttendanceSnapSettled(run, ok)

\* Reports while the stores change: the first days of a term, with manual
\* marks, deletions of students and a new course in between the reads.
InitReport ==
    \E classes \in 0..MaxDay, attended \in 0..MaxDay :
        attended <= classes /\ TermInit(attended, classes)

ReportNext ==
    \/ ReportSteps
    \/ \E c \in CourseDocIds : CreateCourse(c, ReportFaculty)
    \/ \E c \in CourseDocIds, u \in Students, ok \in BOOLEAN :
          handleManualMark(c, u, day, ok)
    \/ \E u \in Students, ok \in BOOLEAN : handleDelete(u, ok)

SpecReport == InitReport /\ [][ReportNext]_vars

\* Reports over the stores of a whole term, up to MaxClasses class dates.
InitReportTerm ==
    \E classes \in 0..MaxClasses, attended \in 0..MaxClasses :
        attended <= classes /\ TermInit(attended, classes)

ReportTermNext ==
    \/ ReportSteps
    \/ \E c \in CourseDocIds : CreateCourse(c, ReportFaculty)

SpecReportTerm == InitReportTerm /\ [][ReportTermNext]_vars

-----------------------------------------------------------------------------
(* Properties of the Code Verifier, checked under Spec *)

\* How the signup run that created identity uid ended (None while it runs).
Outcome(uid) == IF uid \in DOMAIN history THEN history[uid] ELSE None

IsPrefix(t, s) == Len(t) <= Len(s) /\ \A i \in 1..Len(t) : t[i] = s[i]

\* The attendance documents that belong to a (student, course, date).
RecordsFor(studentId, courseId, date) ==
    {id \in DOMAIN attendance :
        /\ attendance[id].studentId = studentId
        /\ attendance[id].courseId = courseId
        /\ attendance[id].date = date}

\* C1: when the freshness check of an attempt runs on a decoded token whose
\* age now - timestamp is greater than 30000 ms, the attempt ends there with
\* success=false and the expired-code message, getCurrentPosition is not
\* started and neither store changes, and the attempt never writes later; an
\* age of at most 30000 ms (exactly 30000 included) passes the check.
C1_ExpiredTokenRejected ==
    /\ [][\A a \in AttemptIds :
            (/\ attempts[a].pc = "stopping"
             /\ attempts'[a].pc # "stopping"
             /\ attempts[a].text.json)
            => IF now - attempts[a].text.timestamp > 30000
                 THEN /\ attempts'[a].pc = "done"
                      /\ attempts'[a].result.success = FALSE
                      /\ attempts'[a].result = ExpiredResult
                      /\ attempts'[a].trace = <<"freshness">>
                      /\ attendance' = attendance
                      /\ courses' = courses
                 ELSE /\ attempts'[a].pc = "locating"
                      /\ attempts'[a].result = NoResult]_vars
    /\ [](\A a \in AttemptIds :
            attempts[a].result = ExpiredResult
            => /\ attempts[a].pc = "done"
               /\ attempts[a].writes = 0
               /\ ~InSeq("location", attempts[a].trace))

\* C1 witness: an attempt on a token issued at 0, checked at 30001, has ended
\* with the expired-code result.
C1_Witness ==
    \E a \in AttemptIds :
        /\ attempts[a].pc = "done"
        /\ attempts[a].result = ExpiredResult
        /\ attempts[a].text.timestamp = 0
        /\ now = 30001

\* C2: an attempt that passed the freshness check and acquired the position
\* is rejected as out of range exactly when the distance between the
\* student's position and the token's location is greater than 20 m: 20.00 m
\* is accepted, 20.01 m is rejected.
C2_GeofenceInclusive ==
    \A a \in AttemptIds :
        LET at == attempts[a]
            p == at.position
            q == at.text.location
            d == IF p >= q THEN p - q ELSE q - p
            rejected == at.pc = "done" /\ at.result = OutOfRangeResult
        IN /\ rejected => InSeq("geofence", at.trace)
           /\ InSeq("geofence", at.trace)
              => /\ at.distance = d
                 /\ rejected <=> d > 20 * 100
                 /\ d = 2000 => InSeq("upsert", at.trace)
                 /\ d = 2001 => rejected

\* C2 witness: an attempt has been rejected at a distance of 20.01 m.
C2_Witness ==
    \E a \in AttemptIds :
        /\ attempts[a].pc = "done"
        /\ attempts[a].result = OutOfRangeResult
        /\ attempts[a].distance = 2001

\* C3: an attempt whose token was fresh, whose position was acquired within
\* 20 m and whose two store writes both took effect reports success=true, and
\* only such an attempt does; the attendance store then holds the document
\* keyed by (scanning student, token.courseId, the date of the commit) with
\* status present and, unless another commit for the same key has replaced
\* it since, markedBy = token.facultyId, and the student is in the course's
\* studentIds.
C3_SuccessfulCheckIn ==
    \A a \in AttemptIds :
        LET at == attempts[a]
            id == at.user \o "_" \o at.text.courseId \o "_" \o at.date
        IN at.pc = "done"
           => /\ at.writes = 2 <=> at.result.success
              /\ at.result.success
                 => /\ at.result = SuccessResult
                    /\ at.trace = StepOrder
                    /\ at.distance <= 20 * 100
                    /\ at.date \in {DateString(d) : d \in 1..day}
                    /\ id \in DOMAIN attendance
                    /\ attendance[id].studentId = at.user
                    /\ attendance[id].courseId = at.text.courseId
                    /\ attendance[id].date = at.date
                    /\ attendance[id].status = "present"
                    /\ ~at.overwritten => attendance[id].markedBy = at.text.facultyId
                    /\ at.text.courseId \in DOMAIN courses
                    /\ InSeq(at.user, courses[at.text.courseId].studentIds)

\* C3 witness: an attempt has reported success and its document is still the
\* one it wrote.
C3_Witness ==
    \E a \in AttemptIds :
        /\ attempts[a].pc = "done"
        /\ attempts[a].result.success
        /\ ~attempts[a].overwritten

\* C4: the attendance store holds at most one document per (studentId,
\* courseId, date); every document lies under the id studentId_courseId_date
\* of its own fields; and a commit (QR check-in or manual mark) changes the
\* one document of its triple, replacing it by the fields of that call, and
\* never adds a second one.
C4_OneRecordPerTriple ==
    /\ [](\A id \in DOMAIN attendance :
            LET r == attendance[id] IN
            /\ id = r.studentId \o "_" \o r.courseId \o "_" \o r.date
            /\ Cardinality(RecordsFor(r.studentId, r.courseId, r.date)) = 1)
    /\ [][attendance' # attendance
          => \E id \in DOMAIN attendance' :
               /\ DOMAIN attendance' = DOMAIN attendance \cup {id}
               /\ \A k \in DOMAIN attendance \ {id} : attendance'[k] = attendance[k]
               /\ \/ \E a \in AttemptIds :
                       /\ attempts[a].pc = "writing"
                       /\ attempts'[a].pc = "enrolling"
                       /\ attendance'[id] =
                            [studentId |-> attempts[a].user,
                             courseId |-> attempts[a].text.courseId,
                             date |-> attempts[a].date,
                             status |-> "present",
                             markedBy |-> attempts[a].text.facultyId]
                  \/ /\ \A a \in AttemptIds : attempts'[a].pc = attempts[a].pc
                     /\ attendance'[id].status = "present"
                     /\ attendance'[id].courseId \in DOMAIN courses
                     /\ attendance'[id].markedBy =
                            courses[attendance'[id].courseId].facultyId]_vars

\* C4 witness: a second commit for the triple of an attempt has replaced the
\* attempt's document by its own fields, and the triple still has one document.
C4_Witness ==
    \E a \in AttemptIds :
        LET at == attempts[a]
            id == AttendanceId(at.user, at.text.courseId, at.date)
        IN /\ at.overwritten
           /\ id \in DOMAIN attendance
           /\ attendance[id].markedBy # at.text.facultyId
           /\ Cardinality(RecordsFor(at.user, at.text.courseId, at.date)) = 1

\* C5 (as claimed): an attempt that ends with success=false has made either
\* both of its store writes (attendance upsert and studentIds update) or
\* neither.
C5_NoPartialAttendanceState ==
    \A a \in AttemptIds :
        (attempts[a].pc = "done" /\ ~attempts[a].result.success)
        => attempts[a].writes \in {0, 2}

\* C10: the steps of an attempt start in the order freshness, location,
\* geofence, upsert, enroll, one pending at a time; the attempt calls
\* setResult exactly once, when it ends, and starts nothing after that; a
\* step that fails in step 1, 2 or 3 changes neither store, and an attempt
\* that failed there has written nothing.
C10_StepsInOrder ==
    /\ [](\A a \in AttemptIds :
            LET at == attempts[a] IN
            /\ IsPrefix(at.trace, <<"freshness", "location", "geofence", "upsert", "enroll">>)
            /\ at.pc \in {"closed", "scanning", "stopping"} => at.trace = <<>>
            /\ at.pc = "locating" => Len(at.trace) = 2
            /\ at.pc = "writing" => Len(at.trace) = 4
            /\ at.pc = "enrolling" => Len(at.trace) = 5
            /\ at.results = IF at.pc = "done" THEN 1 ELSE 0
            /\ at.pc = "done" <=> at.result # NoResult
            /\ at.result.success => Len(at.trace) = 5
            /\ at.writes >= 1 => Len(at.trace) = 5
            /\ (at.pc = "done" /\ Len(at.trace) <= 3) => at.writes = 0)
    /\ [][\A a \in AttemptIds :
            /\ (attempts[a].pc \in {"stopping", "locating"} /\ attempts'[a].pc = "done")
               => (attendance' = attendance /\ courses' = courses)
            /\ attempts[a].pc = "done"
               => \/ attempts'[a] = ClosedAttempt
                  \/ /\ attempts'[a].pc = "done"
                     /\ attempts'[a].result = attempts[a].result
                     /\ attempts'[a].trace = attempts[a].trace
                     /\ attempts'[a].writes = attempts[a].writes]_vars

\* C10 witness: an attempt has failed in step 3 (out of range) after some
\* attendance document was written by an earlier commit.
C10_Witness ==
    \E a \in AttemptIds :
        /\ attempts[a].pc = "done"
        /\ attempts[a].trace = <<"freshness", "location", "geofence">>
        /\ ~attempts[a].result.success
        /\ attempts[a].writes = 0
        /\ attendance # EmptyStore

-----------------------------------------------------------------------------
(* Concurrent check-ins, checked under SpecRace *)

\* How often x occurs in the sequence s.
Occurrences(x, s) == Cardinality({i \in 1..Len(s) : s[i] = x})

\* C11: when check-ins for one (student, course, day) run concurrently, in
\* every interleaving the triple has exactly one attendance document; it is
\* the complete document of the write that landed last (of the attempt that
\* no later commit has overwritten, otherwise of that later commit), never a
\* mix of fields; and the student occurs at most once in the course's
\* studentIds, exactly once after an enrollment update took effect.
C11_LastWriteWins ==
    /\ \A a \in AttemptIds :
          LET at == attempts[a]
              id == at.user \o "_" \o at.text.courseId \o "_" \o at.date
          IN at.writes >= 1
             => /\ id \in DOMAIN attendance
                /\ Cardinality(RecordsFor(at.user, at.text.courseId, at.date)) = 1
                /\ attendance[id] \in [studentId : {at.user}, courseId : {at.text.courseId},
                                       date : {at.date}, status : {"present"},
                                       markedBy : FacultyIds]
                /\ ~at.overwritten => attendance[id].markedBy = at.text.facultyId
                /\ \A b \in AttemptIds \ {a} :
                      (/\ attempts[b].writes >= 1
                       /\ attempts[b].user = at.user
                       /\ attempts[b].text.courseId = at.text.courseId
                       /\ attempts[b].date = at.date)
                      => (at.overwritten \/ attempts[b].overwritten)
                /\ at.writes = 2
                   => Occurrences(at.user, courses[at.text.courseId].studentIds) = 1
    /\ \A c \in DOMAIN courses, u \in Students :
          Occurrences(u, courses[c].studentIds) <= 1

\* C11 witness: two attempts of one student for one course and day, on tokens
\* of different faculty members, have both succeeded; the first writer's
\* document has been replaced by the second's.
C11_Witness ==
    LET a1 == attempts["a1"]
        a2 == attempts["a2"]
    IN /\ a1.pc = "done" /\ a1.result.success
       /\ a2.pc = "done" /\ a2.result.success
       /\ a1.user = a2.user /\ a1.date = a2.date
       /\ a1.text.courseId = a2.text.courseId
       /\ a1.text.facultyId # a2.text.facultyId
       /\ a1.overwritten /\ ~a2.overwritten
       /\ attendance[AttendanceId(a2.user, a2.text.courseId, a2.date)].markedBy
             = a2.text.facultyId

-----------------------------------------------------------------------------
(* Enrollment, checked under SpecEnroll *)

\* C12: studentIds of a course is append-only and free of duplicates: no
\* step (course creation, check-in, manual mark, student deletion) removes
\* or reorders a member or deletes the course; a check-in whose enrollment
\* update takes effect appends the scanning student when absent and leaves
\* studentIds as it is when the student is a member already.
C12_StudentIdsAppendOnly ==
    /\ [](\A c \in DOMAIN courses, u \in Uids \cup Students :
            Occurrences(u, courses[c].studentIds) <= 1)
    /\ [][(\A c \in DOMAIN courses :
               /\ c \in DOMAIN courses'
               /\ IsPrefix(courses[c].studentIds, courses'[c].studentIds))
          /\ (\A a \in AttemptIds :
                (/\ attempts[a].pc = "enrolling"
                 /\ attempts'[a].pc = "done"
                 /\ attempts'[a].result.success)
                => LET cid == attempts[a].text.courseId
                       uid == attempts[a].user
                   IN courses'[cid].studentIds =
                        IF \E i \in 1..Len(courses[cid].studentIds) :
                               courses[cid].studentIds[i] = uid
                          THEN courses[cid].studentIds
                          ELSE courses[cid].studentIds \o <<uid>>)]_vars

\* C12 witness: a student who was enrolled by a check-in is still in
\* studentIds after the profile was deleted by ManageStudents.
C12_Witness ==
    \E c \in DOMAIN courses, u \in Uids :
        /\ Occurrences(u, courses[c].studentIds) = 1
        /\ Outcome(u) = "complete"
        /\ u \notin DOMAIN users

-----------------------------------------------------------------------------
(* Signup: what a failed run leaves behind *)

\* A login run for uid has ended: its handler has returned.
LoginEnded(uid) == login.uid = uid /\ login.pc \in {"none", "rejected", "navigating"}

\* C6: when the photo upload or the download-URL fetch of a student's signup
\* fails after the identity was created, the identity is gone when
\* handleFinalSubmit ends and its profile lookup returns not-found.
C6_UploadFailureRollsBack ==
    \A uid \in Uids :
        Outcome(uid) = "upload_failed" =>
            uid \notin AuthUids /\ uid \notin DOMAIN users

\* C7: a failed identity creation has no side effects: identities, stored
\* images and profiles are as before, nobody new is signed in, the stage is
\* idle again and the form is back on the details step with an error.
C7_IdentityFailureNoSideEffects ==
    [][(signup.pc = "createUser" /\ signup'.pc = "none") =>
          /\ authUsers' = authUsers
          /\ authCurrent' = authCurrent
          /\ faces' = faces
          /\ users' = users
          /\ listener' = listener
          /\ signup'.stage = "idle"
          /\ signup'.step = "details"
          /\ signup'.error # None]_vars

\* A duplicate e-mail was rejected and the form is back on the details step.
C7_Witness ==
    /\ signup.error = "An account with this email already exists."
    /\ signup.stage = "idle"
    /\ signup.step = "details"
    /\ authUsers # {}

C9_AllOrNothing ==
    signup.pc \in {"none", "timer"} =>
        \A uid \in Uids :
            /\ uid \in faces => uid \in DOMAIN users
            /\ uid \in DOMAIN users => uid \in AuthUids
            /\ uid \in AuthUids => uid \in DOMAIN users

-----------------------------------------------------------------------------
(* Code Generator, checked under SpecGenerator *)

\* C13: startSession with a selected course starts one generation at once
\* and the interval timer starts one more every 10000 ms while the session
\* is active; a token emitted by a generation of the active session carries
\* the session's course and faculty user and the instant of its emission as
\* timestamp, and every emitted token replaces qrData as a whole.
C13_RefreshCadence ==
    /\ [](qr.sessionActive
          => /\ Len(qr.starts) >= 1
             /\ \A i \in 1..Len(qr.starts) :
                  qr.starts[i] = qr.starts[1] + (i - 1) * 10000
             /\ \E tm \in timers :
                  /\ timers = {tm}
                  /\ tm.due = qr.starts[Len(qr.starts)] + 10000
                  /\ now <= tm.due)
    /\ [][(~qr.sessionActive /\ qr'.sessionActive)
          => /\ qr.selectedCourse # None
             /\ qr'.starts = <<now>>
             /\ \E g \in generations' \ generations :
                  /\ generations' = generations \cup {g}
                  /\ g.started = now
                  /\ g.course = qr.selectedCourse
                  /\ g.faculty = qr.faculty]_vars
    /\ [][(qr'.qrData # qr.qrData /\ qr'.qrData.timestamp >= 0)
          => \E g \in generations \ generations' :
               /\ qr'.qrData \in [sessionId : {now}, courseId : {g.course},
                                  facultyId : {g.faculty}, timestamp : {now},
                                  location : GenPositions]
               /\ (g.session = qr.session /\ qr.sessionActive)
                  => /\ qr'.qrData.courseId = qr.selectedCourse
                     /\ qr'.qrData.facultyId = qr.faculty]_vars

\* C13 witness: the session's second generation, started by the timer
\* 10000 ms after the first, has emitted the token on display.
C13_Witness ==
    /\ qr.sessionActive
    /\ Len(qr.starts) = 2
    /\ qr.qrSession = qr.session
    /\ qr.qrData.timestamp = now
    /\ now > qr.starts[2]
    /\ qr.qrData.courseId = qr.selectedCourse


\* The run g of generateNewQrData ends in this step in its catch block.
GenerationFailedStep(g) ==
    /\ g \in generations
    /\ g \notin generations'
    /\ g.alive
    /\ qr'.mounted
    /\ ~(qr'.error = None /\ qr'.qrData.timestamp = now)

\* C14: when the location acquisition of a generation fails (the first of a
\* session or one started by the timer), the step shows the error, sets
\* sessionActive false, clears qrData and cancels the refresh timer; no timer
\* exists while no session is active, and a generation starts only in a step
\* that begins a session or in a tick of an active session.
C14_LocationFailureHaltsSession ==
    /\ [][\A g \in generations :
            GenerationFailedStep(g)
            => /\ qr'.error = "Could not get location. Please enable location services."
               /\ ~qr'.sessionActive
               /\ qr'.qrData = NullQrData
               /\ qr'.intervalRef = 0
               /\ timers' = {}]_vars
    /\ [](~qr.sessionActive => timers = {})
    /\ [][(\E g \in generations' : \A h \in generations :
              <<g.session, g.started>> # <<h.session, h.started>>)
          => /\ qr'.sessionActive
             /\ \/ ~qr.sessionActive /\ qr'.session = qr.session + 1
                \/ qr.sessionActive /\ qr'.session = qr.session]_vars

\* C14 witness: a session that had run two generations has been halted by a
\* location failure.
C14_Witness ==
    /\ qr.mounted
    /\ qr.error = "Could not get location. Please enable location services."
    /\ ~qr.sessionActive
    /\ Len(qr.starts) = 2
    /\ qr.qrData = NullQrData
    /\ timers = {}


\* C15 (as claimed): no token is reused across sessions: qrData is null
\* whenever no session is active, and a token held while a session is active
\* was produced by a generation of that session.
C15_NoTokenAcrossSessions ==
    (qr.mounted /\ qr.qrData # NullQrData)
    => (qr.sessionActive /\ qr.qrSession = qr.session)


-----------------------------------------------------------------------------
(* Signup stages, checked under SpecAccounts *)

\* The place of a submission stage in the order of SubmissionStage.
StageRank(stage) ==
    CASE stage = "idle" -> 0
      [] stage = "creating_auth" -> 1
      [] stage = "uploading_photo" -> 2
      [] stage = "saving_user_data" -> 3
      [] stage = "complete" -> 4

\* C16: the submission stage of a signup run only moves forward along idle,
\* creating_auth, uploading_photo (only for a student with a captured image),
\* saving_user_data, complete; a failure sets it back to idle with the form
\* on the details step and an error; complete means that the identity, the
\* picture when it applies and the profile of the run exist; and the success
\* callback hands over the uid of the new identity, whose profile is the
\* assembled userData.
C16_StagesMoveForward ==
    /\ [][signup'.stage # signup.stage
          => \/ /\ signup.stage = "idle"
                /\ signup'.stage = "creating_auth"
             \/ /\ signup.stage = "creating_auth"
                /\ signup'.stage = "uploading_photo"
                /\ signup'.role = "student" /\ signup'.imgSrc
             \/ /\ signup.stage = "creating_auth"
                /\ signup'.stage = "saving_user_data"
                /\ ~(signup'.role = "student" /\ signup'.imgSrc)
             \/ /\ signup.stage = "uploading_photo"
                /\ signup'.stage = "saving_user_data"
                /\ signup.uid \in faces
             \/ /\ signup.stage = "saving_user_data"
                /\ signup'.stage = "complete"
             \/ /\ signup.stage \in {"creating_auth", "uploading_photo", "saving_user_data"}
                /\ signup'.stage = "idle"
                /\ signup'.step = "details"
                /\ signup'.error # None
             \/ /\ signup.stage = "complete"
                /\ signup.pc = "none"
                /\ signup' = MountedSignUp]_vars
    /\ [](/\ StageRank(signup.stage) >= 2 => signup.uid \in {i.uid : i \in authUsers}
          /\ signup.stage = "uploading_photo" => (signup.role = "student" /\ signup.imgSrc)
          /\ signup.stage = "complete"
             => /\ signup.step = "success"
                /\ signup.uid \in DOMAIN users
                /\ users[signup.uid].email = signup.email
                /\ users[signup.uid].role = signup.role
                /\ (signup.role = "student" /\ signup.imgSrc)
                   => (signup.uid \in faces /\ users[signup.uid].faceImageUrl)
          /\ signup.step = "success" => signup.stage = "complete")
    /\ [][(signup.pc = "timer" /\ signup'.pc # "timer")
          => /\ currentUser' = signup.uid
             /\ signup.uid \in DOMAIN users
             /\ signup.stage = "complete"]_vars

\* C16 witness: a student's run with a captured image has gone through every
\* stage and the success callback has made the new user the current user.
C16_Witness ==
    /\ signup.stage = "complete"
    /\ signup.pc = "none"
    /\ signup.role = "student"
    /\ signup.uid \in faces
    /\ currentUser = signup.uid


\* C17: nothing is created before handleFinalSubmit begins: a step of the
\* form (a validation failure, Next, Capture, Retake, Go Back, the switch to
\* the login page, up to the start of handleFinalSubmit) changes no identity,
\* stored image or profile document; every identity was created by a signup
\* run that got past createUserWithEmailAndPassword, and images and profiles
\* exist only for such identities.
C17_NothingCreatedBeforeSubmission ==
    /\ [][(signup.pc = "none" /\ signup'.pc \in {"none", "createUser"})
          => /\ authUsers' = authUsers
             /\ users' = users
             /\ faces' = faces]_vars
    /\ [](/\ \A i \in authUsers :
               \/ i.uid \in DOMAIN history
               \/ i.uid = signup.uid /\ signup.pc \in {"uploadString", "getDownloadURL", "setDoc"}
          /\ faces \subseteq {i.uid : i \in authUsers}
          /\ DOMAIN users \subseteq {i.uid : i \in authUsers})

\* C17 witness: the user is on the face-capture step with a captured image,
\* for an e-mail that has no identity, image or profile.
C17_Witness ==
    /\ signup.step = "faceCapture"
    /\ signup.imgSrc
    /\ signup.email \in Emails
    /\ \A i \in authUsers : i.email # signup.email
    /\ authUsers # {}


-----------------------------------------------------------------------------
(* Identities without a profile, checked under SpecAccounts *)

\* C18: an identity whose profile document is missing never becomes the
\* current user: currentUser is only ever set to a uid whose profile exists;
\* a login run that found the profile missing has signed out and is idle
\* with the not-found error; an auth-state callback that found no profile
\* ends with nobody signed in and currentUser null.
C18_NoProfileNeverCurrentUser ==
    /\ [][(currentUser' # currentUser /\ currentUser' # None)
          => currentUser' \in DOMAIN users]_vars
    /\ [](currentUser # None => currentUser \in DOMAIN users)
    /\ [](login.pc = "rejected"
          => /\ login.uid \notin DOMAIN users
             /\ authCurrent = None
             /\ login.stage = "idle"
             /\ login.error = "Your user data could not be found.")
    /\ [][\A run \in listener :
            (run.pc = "signOut" /\ run \notin listener')
            => (authCurrent' = None /\ currentUser' = None)]_vars

\* C18 witness: an identity left without a profile by a failed signup has
\* been signed out by its auth-state callback and rejected by a later login.
C18_Witness ==
    /\ login.pc = "rejected"
    /\ Outcome(login.uid) \in {"upload_failed", "profile_write_failed"}
    /\ listener = {}
    /\ authCurrent = None
    /\ currentUser = None


-----------------------------------------------------------------------------
(* Properties of the Report Aggregator, checked under SpecReportTerm and    *)
(* SpecReport                                                               *)

\* round(100 * presentCount / totalClasses) in exact arithmetic, a tie going up.
RoundedPercent(presentCount, totalClasses) ==
    (200 * presentCount + totalClasses) \div (2 * totalClasses)

\* The run of generateReport with that id ends its last read and delivers.
ReportDelivered(run) ==
    /\ run.pc = "getAttendance"
    /\ \E r \in reportRuns' : r.id = run.id /\ r.pc = "done"

\* C19: when a run of generateReport that read at least one student id from
\* the course delivers its report, reportData has for each of those student
\* ids a row whose presentCount is the number of the course's records with
\* that studentId and status present, whose totalClasses is the number of
\* distinct dates among all of the course's records (1 when there are none),
\* and whose percentage is round(100 * presentCount / totalClasses), a tie
\* going up as in Math.round; 4 present records over 5 dates give 80.
C19_ReportRows ==
    [][\A run \in reportRuns :
         (ReportDelivered(run) /\ Len(run.studentIds) > 0) =>
           LET records == {id \in DOMAIN attendance :
                              attendance[id].courseId = run.courseId}
               dates == {attendance[id].date : id \in records}
               classes == IF dates = {} THEN 1 ELSE Cardinality(dates) IN
           \A i \in 1..Len(run.studentIds) :
              \E row \in report'.reportData :
                 /\ row.id = run.studentIds[i]
                 /\ row.presentCount =
                      Cardinality({id \in records :
                                     /\ attendance[id].studentId = row.id
                                     /\ attendance[id].status = "present"})
                 /\ row.totalClasses = classes
                 /\ row.percentage = RoundedPercent(row.presentCount, classes)
                 /\ (row.presentCount = 4 /\ classes = 5 => row.percentage = 80)]_vars


\* C20: when the course document a run of generateReport has read holds no
\* student id (studentIds empty or missing), the run sets reportData to the
\* empty set and loading to false and returns: it ends done, not rejected,
\* and the only collection it has queried is courses.
C20_NoStudentsEmptyReport ==
    [][\A run \in reportRuns :
         ( /\ run.pc = "getCourse"
           /\ \/ run.courseId \notin DOMAIN courses
              \/ courses[run.courseId].studentIds = <<>>
           /\ \E r \in reportRuns' : r.id = run.id /\ r.pc \notin {"getCourse", "rejected"} )
         => /\ report'.reportData = {}
            /\ report'.loading = FALSE
            /\ \E r \in reportRuns' :
                  r.id = run.id /\ r.pc = "done" /\ r.queries = <<"courses">>]_vars

\* A run for a course without students has returned; nothing is shown and
\* the spinner is off.
C20_Witness ==
    \E run \in reportRuns :
        /\ run.pc = "done"
        /\ run.queries = <<"courses">>
        /\ run.courseId \in DOMAIN courses
        /\ courses[run.courseId].studentIds = <<>>
        /\ report.selectedCourseId = run.courseId
        /\ report.reportData = {}
        /\ ~report.loading


-----------------------------------------------------------------------------
(* Timeouts, cancellation and error handling *)

\* C21: an attempt never starts the write of its attendance record (setDoc,
\* after getCurrentPosition() has settled) later than 30000 ms after the
\* timestamp of the token it decoded, however long the location acquisition
\* took; the record is then committed no earlier than that.
C21_FreshnessWindowIsTimeout ==
    [][\A a \in AttemptIds :
         (attempts[a].pc = "locating" /\ attempts'[a].pc = "writing") =>
            now - attempts[a].text.timestamp <= FRESHNESS_WINDOW_MS]_vars

\* C22: at most one run of generateNewQrData of the active session awaits
\* getCurrentPosition() at any time: a tick of the refresh timer does not
\* start a run while the session's initial run or an earlier tick's run is
\* still pending.
C22_SingleGenerationInFlight ==
    Cardinality({g \in generations :
                   g.alive /\ qr.sessionActive /\ g.session = qr.session}) <= 1


\* C23: whatever the order of startSession, stopSession, ticks of the timer,
\* failed location acquisitions and unmounts, at most one refresh timer
\* exists, and none exists while no session is active or the component is
\* unmounted, so no tick fires after stopSession or unmount.
C23_SingleRefreshTimer ==
    /\ Cardinality(timers) <= 1
    /\ (~qr.mounted \/ ~qr.sessionActive) => timers = {}

\* A session whose timer has fired has been stopped.
C23_Witness ==
    /\ qr.mounted
    /\ ~qr.sessionActive
    /\ Len(qr.starts) >= 2
    /\ timers = {}


-----------------------------------------------------------------------------
(* ScannerModal and its camera: the scanner effect and its cleanup *)

\* Upper bound on the Html5Qrcode instances alive at a time.
MaxScanners == 2

CameraResult ==
    [success |-> FALSE,
     message |-> "Could not start camera. Please grant permission and try again."]

\* The instance html5QrCodeRef.current of the mounted modal a points to.
CurrentScanners(a) == {s \in scanners : s.modal = a /\ s.current}

\* Html5Qrcode.isScanning: the camera has started and was not stopped.
isScanning(s) == s.state = "scanning"

\* The instances still alive: the one a mounted modal refers to, and those
\* that hold or are acquiring the camera.
Alive(ss) == {s \in ss : s.current \/ s.state \in {"starting", "scanning"}}

\* The effect body, run after the modal has rendered the 'scanning' step:
\* with no instance in html5QrCodeRef it creates one and calls start(),
\* which acquires the camera.
ScannerEffect(a) ==
    /\ attempts[a].pc = "scanning"
    /\ CurrentScanners(a) = {}
    /\ Cardinality(scanners) < MaxScanners
    /\ \E id \in 1..MaxScanners :
         /\ \A s \in scanners : s.id # id
         /\ \A other \in 1..MaxScanners :
               other < id => \E s \in scanners : s.id = other
         /\ scanners' = scanners \cup
              {[id |-> id, modal |-> a, state |-> "starting", current |-> TRUE]}
    /\ UNCHANGED <<now, day, attendance, courses, attempts, accountVars,
                   facultyVars, serviceVars>>

\* start() has settled: the camera is on and frames are decoded; or the
\* rejection handler sets step 'result' with the camera message (the state
\* setters of an unmounted modal do nothing).
StartSettled(s, ok) ==
    /\ s \in scanners
    /\ s.state = "starting"
    /\ IF ok
         THEN /\ scanners' = (scanners \ {s}) \cup {[s EXCEPT !.state = "scanning"]}
              /\ UNCHANGED attempts
         ELSE /\ scanners' = Alive((scanners \ {s}) \cup {[s EXCEPT !.state = "failed"]})
              /\ IF s.current
                   THEN Finish(s.modal, CameraResult)
                   ELSE UNCHANGED attempts
    /\ UNCHANGED <<now, day, attendance, courses, accountVars,
                   facultyVars, serviceVars>>

\* A frame of the running camera is decoded: handleScanSuccess(decodedText).
FrameDecoded(a, text) ==
    /\ \E s \in CurrentScanners(a) : isScanning(s)
    /\ ScanDecoded(a, text)

\* html5QrCodeRef.current.stop(), called by handleScanSuccess, releases the
\* camera.
ScannerStopped(a) ==
    /\ attempts[a].pc = "stopping"
    /\ \E s \in CurrentScanners(a) :
         /\ isScanning(s)
         /\ scanners' = (scanners \ {s}) \cup {[s EXCEPT !.state = "stopped"]}
    /\ UNCHANGED <<now, day, attendance, courses, attempts, accountVars,
                   facultyVars, serviceVars>>

\* handleScanSuccess goes on after its await of stop().
StopAwaited(a) ==
    /\ \A s \in CurrentScanners(a) : ~isScanning(s)
    /\ StopSettled(a)

\* The cleanup of the scanner effect as the modal a unmounts: an instance
\* that isScanning is stopped, and the ref dies with the component.
Cleanup(ss, a) ==
    Alive({IF s.modal = a /\ s.current
             THEN [s EXCEPT !.current = FALSE,
                            !.state = IF isScanning(s) THEN "stopped" ELSE @]
             ELSE s : s \in ss})

\* The Close button unmounts the modal; React runs the effect's cleanup.
CloseScanner(a) ==
    /\ attempts[a].pc \in {"scanning", "done"}
    /\ attempts' = [attempts EXCEPT ![a] = ClosedAttempt]
    /\ scanners' = Cleanup(scanners, a)
    /\ UNCHANGED <<now, day, attendance, courses, accountVars,
                   facultyVars, serviceVars>>

ScannerNext ==
    \/ \E a \in SeqAttempts, u \in Students : OpenScanner(a, u)
    \/ \E a \in SeqAttempts : ScannerEffect(a)
    \/ \E s \in scanners, ok \in BOOLEAN : StartSettled(s, ok)
    \/ \E a \in SeqAttempts, text \in DecodedTexts : FrameDecoded(a, text)
    \/ \E a \in SeqAttempts : ScannerStopped(a)
    \/ \E a \in SeqAttempts : StopAwaited(a)
    \/ \E a \in SeqAttempts, ok \in BOOLEAN, position \in StudentPositions :
          PositionSettled(a, ok, position)
    \/ \E a \in SeqAttempts, ok \in BOOLEAN : SetDocSettled(a, ok)
    \/ \E a \in SeqAttempts, ok \in BOOLEAN : UpdateDocSettled(a, ok)
    \/ \E a \in SeqAttempts : CloseScanner(a)
    \/ \E c \in CourseDocIds, f \in CourseOwners : CreateCourse(c, f)
    \/ \E t \in TimePoints : Tick(t)

\* One ScannerModal at a time, with its camera.
SpecScanner == Init /\ [][ScannerNext]_vars

\* C24: the camera is held only by the scanner of a mounted modal that is
\* scanning or is being stopped by handleScanSuccess: once the handler has
\* gone past its await of stop(), whatever the outcome, and once the modal
\* has been closed, at any moment, no instance holds the camera.
C24_CameraReleased ==
    \A s \in scanners :
       isScanning(s) =>
          /\ s.current
          /\ attempts[s.modal].pc \in {"scanning", "stopping"}


\* C25: no run of generateReport ends with a rejection that nothing catches:
\* a failed store read is turned into a reported outcome, as the catch blocks
\* of handleScanSuccess, handleFinalSubmit and LoginPage.handleSubmit do, and
\* the component is not left with loading set.
C25_NoUncaughtRejection ==
    \A run \in reportRuns : run.pc # "rejected"


-----------------------------------------------------------------------------
(* Face service: registerFace and verifyFace over localStorage, in the two  *)
(* versions the repository holds: 'face_recognition_data' (registrations    *)
(* with timestamps) and 'face_recognition_uids' (a list of uids).           *)

\* setTimeout(resolve, 800) in registerFace.
REGISTER_DELAY_MS == 800

\* Instants at which a registerFace call reaches Date.now().
FaceTimePoints == {800, 1600, 2400, 3200}

\* The blobs handed to the service: a captured image, and an image of more
\* than 5 MB.
Blobs == {"image", "oversized"}

\* validateImage(blob) returns; otherwise it throws.
validateImage(blob) == blob = "image"

\* [...faces].sort((a, b) => b.timestamp - a.timestamp)[0]: the sort is
\* stable, so among equal timestamps the earlier element stays first.
MatchedFace(sortedFaces) ==
    LET i == CHOOSE i \in 1..Len(sortedFaces) :
               \A j \in 1..Len(sortedFaces) :
                  \/ sortedFaces[j].timestamp < sortedFaces[i].timestamp
                  \/ sortedFaces[j].timestamp = sortedFaces[i].timestamp /\ j >= i
    IN sortedFaces[i]

\* registerFace(uid, imageBlob) of services/firebase.ts, which reaches
\* Date.now() at t: an invalid blob throws; otherwise the registration of
\* the uid is removed and a new one, with timestamp t, is pushed and saved.
registerFace(uid, blob, t) ==
    /\ t >= now + REGISTER_DELAY_MS
    /\ IF validateImage(blob)
         THEN /\ now' = t
              /\ registry' =
                   [registry EXCEPT
                      !.faces = Append(SelectSeq(@, LAMBDA f : f.uid # uid),
                                       [uid |-> uid, timestamp |-> t]),
                      !.latestFace = uid,
                      !.verified = NoVerification]
         ELSE UNCHANGED <<now, registry>>
    /\ UNCHANGED <<day, attendance, courses, attempts, scanners, accountVars,
                   facultyVars, subscriptions>>

\* verifyFace(imageBlob) of services/firebase.ts, with the confidence it
\* draws: an invalid blob or an empty store gives success false; otherwise
\* the most recent registration matches when confidence > 0.8.
verifyFace(blob, confidence) ==
    /\ registry' =
         [registry EXCEPT !.verified =
            IF ~validateImage(blob) \/ Len(registry.faces) = 0 \/ confidence <= 80
              THEN [service |-> "faces", success |-> FALSE, uid |-> None]
              ELSE [service |-> "faces", success |-> TRUE,
                    uid |-> MatchedFace(registry.faces).uid]]
    /\ UNCHANGED <<now, day, attendance, courses, attempts, scanners,
                   accountVars, facultyVars, subscriptions>>

\* registerFace(uid, imageBlob) of the mocked service: the uid is pushed
\* unless the list includes it.
registerFaceMock(uid) ==
    /\ registry' = [registry EXCEPT !.uids = ArrayUnion(@, uid),
                                    !.latestUid = uid,
                                    !.verified = NoVerification]
    /\ UNCHANGED <<now, day, attendance, courses, attempts, scanners,
                   accountVars, facultyVars, subscriptions>>

\* verifyFace(imageBlob) of the mocked service: the last uid of the list.
verifyFaceMock ==
    /\ registry' =
         [registry EXCEPT !.verified =
            IF Len(registry.uids) > 0
              THEN [service |-> "uids", success |-> TRUE,
                    uid |-> registry.uids[Len(registry.uids)]]
              ELSE [service |-> "uids", success |-> FALSE, uid |-> None]]
    /\ UNCHANGED <<now, day, attendance, courses, attempts, scanners,
                   accountVars, facultyVars, subscriptions>>

FaceNext ==
    \/ \E uid \in Students, blob \in Blobs, t \in FaceTimePoints :
          registerFace(uid, blob, t)
    \/ \E blob \in Blobs, confidence \in 85..94 : verifyFace(blob, confidence)
    \/ \E uid \in Students : registerFaceMock(uid)
    \/ verifyFaceMock

\* The face service alone.
SpecFaces == Init /\ [][FaceNext]_vars

\* C26: the result of verifyFace, with a registration in the store, is a
\* match with the uid of the latest registerFace call, a re-registration
\* included and whatever the probe; with an empty store it is success false.
C26_MostRecentRegistrationWins ==
    /\ registry.verified.service = "faces" =>
         IF Len(registry.faces) > 0
           THEN /\ registry.verified.success
                /\ registry.verified.uid = registry.latestFace
           ELSE ~registry.verified.success
    /\ registry.verified.service = "uids" =>
         IF Len(registry.uids) > 0
           THEN /\ registry.verified.success
                /\ registry.verified.uid = registry.latestUid
           ELSE ~registry.verified.success


-----------------------------------------------------------------------------
(* Live subscriptions: the effects of ManageTimetable and LiveAttendance *)

\* Upper bound on the onSnapshot listeners opened.
MaxSubscriptions == 6

\* The two versions of ManageTimetable the repository holds.
TimetableVersions == {"FacultyDashboard.tsx", "part_002"}

\* onSnapshot(query): the listener a run of an effect opens.
Subscription(id, component, collection, run) ==
    [id |-> id, component |-> component, collection |-> collection, run |-> run]

\* The cleanup function returned by the last run is called.
Released(active, cleanup) == {sub \in active : sub.id \notin cleanup}

\* The body of the ManageTimetable effect, after the cleanup of the previous
\* run: a listener on the courses of the faculty user and, when
\* facultyCourses is not empty, one on their timetable slots.  The cleanup
\* returned is unsubTimetable alone in FacultyDashboard.tsx, and both in
\* part_002, when the second listener was opened; unsubCourses otherwise.
TimetableEffect(subs, e) ==
    LET n == subs.opened
        run == e.run + 1
        active == Released(subs.active, subs.timetable.cleanup)
        unsubCourses == Subscription(n + 1, "ManageTimetable", "courses", run)
        unsubTimetable == Subscription(n + 2, "ManageTimetable", "timetable", run)
    IN IF e.facultyCourses > 0
         THEN [subs EXCEPT
                 !.active = active \cup {unsubCourses, unsubTimetable},
                 !.opened = n + 2,
                 !.timetable =
                    [e EXCEPT !.run = run,
                              !.cleanup = IF e.version = "part_002"
                                            THEN {n + 1, n + 2}
                                            ELSE {n + 2}]]
         ELSE [subs EXCEPT
                 !.active = active \cup {unsubCourses},
                 !.opened = n + 1,
                 !.timetable = [e EXCEPT !.run = run, !.cleanup = {n + 1}]]

\* FacultyDashboard shows the 'timetable' tab for the signed-in faculty
\* user: ManageTimetable mounts with facultyCourses [] and its effect runs.
MountTimetable(faculty, version) ==
    /\ ~subscriptions.timetable.mounted
    /\ subscriptions.opened + 2 <= MaxSubscriptions
    /\ subscriptions' =
         TimetableEffect(subscriptions,
                         [UnmountedEffect EXCEPT !.mounted = TRUE,
                                                 !.version = version,
                                                 !.faculty = faculty,
                                                 !.run = subscriptions.timetable.run])
    /\ UNCHANGED <<now, day, attendance, courses, attempts, scanners,
                   accountVars, facultyVars, registry>>

\* A courses listener of the mounted ManageTimetable delivers a snapshot:
\* setFacultyCourses(docs); when facultyCourses.length has changed, the
\* effect runs again, after the cleanup of its previous run.
CoursesSnapshot(sub) ==
    /\ sub \in subscriptions.active
    /\ sub.component = "ManageTimetable"
    /\ sub.collection = "courses"
    /\ subscriptions.timetable.mounted
    /\ subscriptions.opened + 2 <= MaxSubscriptions
    /\ LET e == subscriptions.timetable
           docs == {c \in DOMAIN courses : courses[c].facultyId = e.faculty}
       IN /\ Cardinality(docs) # e.facultyCourses
          /\ subscriptions' =
               TimetableEffect(subscriptions,
                               [e EXCEPT !.facultyCourses = Cardinality(docs)])
    /\ UNCHANGED <<now, day, attendance, courses, attempts, scanners,
                   accountVars, facultyVars, registry>>

\* ManageTimetable unmounts (another tab, logout): the cleanup of the last
\* run of its effect is called.
UnmountTimetable ==
    /\ subscriptions.timetable.mounted
    /\ subscriptions' =
         [subscriptions EXCEPT
            !.active = Released(@, subscriptions.timetable.cleanup),
            !.timetable = [UnmountedEffect EXCEPT !.run = subscriptions.timetable.run]]
    /\ UNCHANGED <<now, day, attendance, courses, attempts, scanners,
                   accountVars, facultyVars, registry>>

\* The LiveAttendance effect runs, at mount or with a new courseId, after
\* the cleanup of its previous run: a listener on today's attendance of the
\* course, released by the cleanup it returns.
LiveAttendanceEffect(faculty) ==
    /\ subscriptions.opened + 1 <= MaxSubscriptions
    /\ LET n == subscriptions.opened
           run == subscriptions.live.run + 1
       IN subscriptions' =
            [subscriptions EXCEPT
               !.active = Released(@, subscriptions.live.cleanup) \cup
                            {Subscription(n + 1, "LiveAttendance", "attendance", run)},
               !.opened = n + 1,
               !.live = [UnmountedEffect EXCEPT !.mounted = TRUE,
                                                !.faculty = faculty,
                                                !.run = run,
                                                !.cleanup = {n + 1}]]
    /\ UNCHANGED <<now, day, attendance, courses, attempts, scanners,
                   accountVars, facultyVars, registry>>

\* LiveAttendance unmounts: its cleanup is called.
UnmountLiveAttendance ==
    /\ subscriptions.live.mounted
    /\ subscriptions' =
         [subscriptions EXCEPT
            !.active = Released(@, subscriptions.live.cleanup),
            !.live = [UnmountedEffect EXCEPT !.run = subscriptions.live.run]]
    /\ UNCHANGED <<now, day, attendance, courses, attempts, scanners,
                   accountVars, facultyVars, registry>>

SubscriptionNext ==
    \/ \E c \in CourseDocIds, f \in CourseOwners : CreateCourse(c, f)
    \/ \E f \in CourseOwners, version \in TimetableVersions :
          MountTimetable(f, version)
    \/ \E sub \in subscriptions.active : CoursesSnapshot(sub)
    \/ UnmountTimetable
    \/ \E f \in CourseOwners : LiveAttendanceEffect(f)
    \/ UnmountLiveAttendance

\* The subscriptions of the faculty dashboard alone.
SpecSubscriptions == Init /\ [][SubscriptionNext]_vars

\* C27: every active listener was opened by the last run of the effect of a
\* mounted component: once the effect has run again or the component has
\* unmounted, nothing an earlier run opened is still active, the courses
\* listener of ManageTimetable included.
C27_SubscriptionsReleased ==
    \A sub \in subscriptions.active :
       LET e == IF sub.component = "ManageTimetable"
                  THEN subscriptions.timetable
                  ELSE subscriptions.live
       IN e.mounted /\ sub.run = e.run


-----------------------------------------------------------------------------
(* Identity *)

\* C28: whenever the App's currentUser is set, the authentication provider
\* has that identity signed in and its profile document exists, in every
\* interleaving of a signup run with the auth-state listener.
C28_CurrentUserSignedIn ==
    currentUser # None =>
       /\ authCurrent = currentUser
       /\ currentUser \in DOMAIN users


\* C29: the attendance document a QR check-in writes has the scanning user
\* as studentId and the token's courseId and facultyId as courseId and
\* markedBy, and no other document changes; its enrollment adds the scanning
\* user, and nobody else, to the studentIds of the token's course.  So runs
\* of one user with different tokens never write for another student.
C29_IdentityBinding ==
    [][\A a \in AttemptIds :
         LET at == attempts[a] IN
         /\ (at.writes = 0 /\ attempts'[a].writes = 1) =>
              \A id \in DOMAIN attendance' :
                 \/ id \in DOMAIN attendance /\ attendance'[id] = attendance[id]
                 \/ /\ attendance'[id].studentId = at.user
                    /\ attendance'[id].courseId = at.text.courseId
                    /\ attendance'[id].markedBy = at.text.facultyId
         /\ (at.writes = 1 /\ attempts'[a].writes = 2) =>
              /\ DOMAIN courses' = DOMAIN courses
              /\ \A c \in DOMAIN courses' :
                    \A i \in 1..Len(courses'[c].studentIds) :
                       \/ InSeq(courses'[c].studentIds[i], courses[c].studentIds)
                       \/ /\ c = at.text.courseId
                          /\ courses'[c].studentIds[i] = at.user]_vars

\* A check-in has written its record and its enrollment for a token whose
\* faculty id is not the scanning user's id.
C29_Witness ==
    \E a \in AttemptIds :
       LET at == attempts[a] IN
       /\ at.writes = 2
       /\ at.text.facultyId # at.user
       /\ \E id \in DOMAIN attendance :
             /\ attendance[id].studentId = at.user
             /\ attendance[id].courseId = at.text.courseId
       /\ at.text.courseId \in DOMAIN courses
       /\ InSeq(at.user, courses[at.text.courseId].studentIds)


-----------------------------------------------------------------------------
(* Report rows over the stores the writers reach *)

\* Reports while students check in by QR and the faculty user marks by hand.
ReportWritersNext ==
    \/ ReportSteps
    \/ \E c \in CourseDocIds : CreateCourse(c, ReportFaculty)
    \/ \E c \in CourseDocIds, u \in Students, ok \in BOOLEAN :
          handleManualMark(c, u, day, ok)
    \/ \E a \in SeqAttempts, u \in RaceStudents : OpenScanner(a, u)
    \/ \E a \in SeqAttempts, text \in RaceTexts :
          text.facultyId = ReportFaculty /\ ScanDecoded(a, text)
    \/ \E a \in SeqAttempts : StopSettled(a)
    \/ \E a \in SeqAttempts, ok \in BOOLEAN, position \in RacePositions :
          PositionSettled(a, ok, position)
    \/ \E a \in SeqAttempts, ok \in BOOLEAN : SetDocSettled(a, ok)
    \/ \E a \in SeqAttempts, ok \in BOOLEAN : UpdateDocSettled(a, ok)
    \/ \E a \in SeqAttempts : CloseModal(a)

SpecReportWriters == InitReport /\ [][ReportWritersNext]_vars

\* C30: in every row of reportData, 0 <= presentCount <= totalClasses and
\* 0 <= percentage <= 100, whatever QR check-ins and manual marks have
\* written: a student has at most one record per course and date.
C30_RowsWithinBounds ==
    \A row \in report.reportData :
       /\ 0 <= row.presentCount
       /\ row.presentCount <= row.totalClasses
       /\ 0 <= row.percentage
       /\ row.percentage <= 100

\* A report with a student present on every one of several class dates and
\* a student present on fewer, after a QR check-in has written a record.
C30_Witness ==
    /\ \E row \in report.reportData :
          /\ row.totalClasses >= 2
          /\ row.presentCount = row.totalClasses
          /\ row.percentage = 100
    /\ \E row \in report.reportData : row.presentCount < row.totalClasses
    /\ \E a \in AttemptIds : attempts[a].writes >= 1

=============================================================================
